---- MODULE Spec2Model ----
(***************************************************************************)
(* A model of the fitspace backend: the Lambda entry adapter (app.py), the *)
(* route dispatcher and field validation (src/routes/api_routes.py), the   *)
(* User and Avatar models (src/models) and the database shim               *)
(* (src/utils/database.py), over an abstract PostgreSQL store.             *)
(*                                                                         *)
(* Text is a sequence of one-character strings, so that strip(), lower(),  *)
(* int() and float() are computed character by character as Python does.   *)
(* An optional value is <<>> (None / SQL NULL) or <<v>>.                    *)
(***************************************************************************)
EXTENDS Integers, Sequences, FiniteSets, TLC

VARIABLES
    pc,          \* position of the current invocation
    entry,       \* "lambda": through lambda_handler; "direct": handle_request called directly
    event,       \* the request being served
    connection,  \* the entry point's connection: "None", "open" or "closed"
    attempt,     \* connection attempts made by get_database_connection_with_retry
    opened,      \* connections opened during this invocation
    closed,      \* connection.close() calls during this invocation
    response,    \* the envelope returned, NoResponse before that
    raised,      \* TRUE when an exception left the entry point
    db,          \* the committed store: users, avatars, the users id sequence
    clock,       \* the store's NOW()
    log,         \* statements, commits and rollbacks of this invocation, in order
    fault,       \* the driver fault met by this invocation's dispatch
    dispatcher,  \* "real", or "double" when handle_request is the raising test double
    lastCreated, \* history: the record returned by the latest successful create-user
                 \* with no write since; <<>> otherwise
    call,        \* the library call in progress when a model method or the connection
                 \* helper is called on its own: its name and arguments
    outcome      \* what that call returned or raised

vars == <<pc, entry, event, connection, attempt, opened, closed, response, raised,
          db, clock, log, fault, dispatcher, lastCreated, call, outcome>>

\* ------------------------------------------------------------------ bounds

\* successful writes (NOW() ticks) explored
MaxClock == 2
\* the largest id the avatars id sequence hands out
MaxAvatarId == 3
\* the length limits create_user and update_user apply
MaxNameLen == 100
MaxPhoneLen == 20
MaxBioLen == 500
MinNameLen == 2
MaxLimit == 100
DefaultLimit == 10
DefaultSearchLimit == 20
\* max_retries handed to get_database_connection_with_retry by its callers
MaxRetries == 1

\* -------------------------------------------------------------------- text

Whitespace == {" ", "\t", "\n"}

RECURSIVE lstrip(_)
lstrip(s) == IF s # <<>> /\ Head(s) \in Whitespace THEN lstrip(Tail(s)) ELSE s

RECURSIVE rstrip(_)
rstrip(s) ==
    IF s # <<>> /\ s[Len(s)] \in Whitespace THEN rstrip(SubSeq(s, 1, Len(s) - 1)) ELSE s

\* str.strip()
strip(s) == rstrip(lstrip(s))

UpperCase == <<"A", "B", "C", "D", "E", "F", "G", "H", "I", "J", "K", "L", "M",
               "N", "O", "P", "Q", "R", "S", "T", "U", "V", "W", "X", "Y", "Z">>
LowerCase == <<"a", "b", "c", "d", "e", "f", "g", "h", "i", "j", "k", "l", "m",
               "n", "o", "p", "q", "r", "s", "t", "u", "v", "w", "x", "y", "z">>

lowerChar(c) ==
    IF \E i \in 1..26 : UpperCase[i] = c
    THEN LowerCase[CHOOSE i \in 1..26 : UpperCase[i] = c]
    ELSE c

\* str.lower()
lower(s) == [i \in 1..Len(s) |-> lowerChar(s[i])]

\* `sub in s` for texts
Contains(s, sub) ==
    \E i \in 1..(Len(s) - Len(sub) + 1) : SubSeq(s, i, i + Len(sub) - 1) = sub

\* the text after the last occurrence of character c: s.split(c)[-1]
RECURSIVE AfterLast(_, _)
AfterLast(s, c) ==
    IF \E i \in 1..Len(s) : s[i] = c
    THEN AfterLast(SubSeq(s, (CHOOSE i \in 1..Len(s) : s[i] = c) + 1, Len(s)), c)
    ELSE s

\* n copies of character c
Rep(c, n) == [i \in 1..n |-> c]

Digits == <<"0", "1", "2", "3", "4", "5", "6", "7", "8", "9">>
IsDigit(c) == \E i \in 1..10 : Digits[i] = c
DigitVal(c) == (CHOOSE i \in 1..10 : Digits[i] = c) - 1
IsDigits(s) == s # <<>> /\ \A i \in 1..Len(s) : IsDigit(s[i])

RECURSIVE DigitsValue(_)
DigitsValue(s) ==
    IF s = <<>> THEN 0
    ELSE DigitsValue(SubSeq(s, 1, Len(s) - 1)) * 10 + DigitVal(s[Len(s)])

RECURSIVE NatText(_)
NatText(n) == IF n < 10 THEN <<Digits[n + 1]>> ELSE NatText(n \div 10) \o <<Digits[(n % 10) + 1]>>

\* str(n) for an int
IntText(n) == IF n < 0 THEN <<"-">> \o NatText(-n) ELSE NatText(n)

Signed(s) == s # <<>> /\ Head(s) \in {"-", "+"}
Unsigned(s) == IF Signed(s) THEN Tail(s) ELSE s
IsNeg(s) == s # <<>> /\ Head(s) = "-"

\* int(text): surrounding whitespace, an optional sign, decimal digits.
\* ok = FALSE is Python's ValueError.
int_text(s) ==
    LET t == strip(s)
        d == Unsigned(t)
    IN IF IsDigits(d)
       THEN [ok |-> TRUE, v |-> IF IsNeg(t) THEN -DigitsValue(d) ELSE DigitsValue(d)]
       ELSE [ok |-> FALSE, v |-> 0]

\* A float is kept in tenths: [k |-> "fin", x10 |-> 10 * value], k = "nan" for NaN.
Fin(x10) == [k |-> "fin", x10 |-> x10]
NaN == [k |-> "nan", x10 |-> 0]

\* float(text): digits with at most one fractional digit, or "nan" in any case.
float_text(s) ==
    LET t == strip(s)
        d == Unsigned(t)
        sign == IF IsNeg(t) THEN -1 ELSE 1
        n == Len(d)
    IN IF lower(d) = <<"n", "a", "n">> THEN [ok |-> TRUE, f |-> NaN]
       ELSE IF IsDigits(d) THEN [ok |-> TRUE, f |-> Fin(sign * 10 * DigitsValue(d))]
       ELSE IF n >= 3 /\ d[n - 1] = "." /\ IsDigits(SubSeq(d, 1, n - 2)) /\ IsDigit(d[n])
       THEN [ok |-> TRUE,
             f |-> Fin(sign * (10 * DigitsValue(SubSeq(d, 1, n - 2)) + DigitVal(d[n])))]
       ELSE [ok |-> FALSE, f |-> NaN]

\* int(float): truncation toward zero
trunc10(x10) == IF x10 >= 0 THEN x10 \div 10 ELSE -((-x10) \div 10)

\* repr of a float kept in tenths, e.g. 120.9
FloatText(x10) ==
    LET a == IF x10 < 0 THEN -x10 ELSE x10
    IN (IF x10 < 0 THEN <<"-">> ELSE <<>>) \o NatText(a \div 10) \o <<".">> \o NatText(a % 10)

\* x < y and x > y on floats: every comparison with NaN is false
FloatLt(f, m) == f.k = "fin" /\ f.x10 < 10 * m
FloatGt(f, m) == f.k = "fin" /\ f.x10 > 10 * m

\* ------------------------------------------------------------- JSON values

\* A value json.loads yields inside a body: t is its Python type, s its text
\* (str), v its number (int; float in tenths; bool as 0/1).
JStr(s) == [t |-> "str", s |-> s, v |-> 0]
JInt(n) == [t |-> "int", s |-> <<>>, v |-> n]
JFloat(x10) == [t |-> "float", s |-> <<>>, v |-> x10]
JNaN == [t |-> "nan", s |-> <<>>, v |-> 0]
JNull == [t |-> "NoneType", s |-> <<>>, v |-> 0]
JBool(b) == [t |-> "bool", s |-> <<>>, v |-> IF b THEN 1 ELSE 0]
JList == [t |-> "list", s |-> <<>>, v |-> 0]

\* a JSON object without members
EmptyObject == [k \in {} |-> JNull]

\* event['body']: k = "absent" (no body key: the '{}' default), "None" (a null
\* body), "invalid" (text that is not JSON), "object" (members o), and JSON
\* that is not an object: "array", "string", or "other" (a number, true, false
\* or null).
Body(k, o) == [k |-> k, o |-> o]
NoBody == Body("absent", EmptyObject)
Obj(o) == Body("object", o)

\* str(x)
PyStr(x) ==
    CASE x.t = "str" -> x.s
      [] x.t = "int" -> IntText(x.v)
      [] x.t = "float" -> FloatText(x.v)
      [] x.t = "nan" -> <<"n", "a", "n">>
      [] x.t = "NoneType" -> <<"N", "o", "n", "e">>
      [] x.t = "bool" -> IF x.v = 1 THEN <<"T", "r", "u", "e">> ELSE <<"F", "a", "l", "s", "e">>
      [] OTHER -> <<"[", "]">>

\* int(x): ok = FALSE is TypeError or ValueError, which the callers catch together
PyInt(x) ==
    CASE x.t = "str" -> int_text(x.s)
      [] x.t \in {"int", "bool"} -> [ok |-> TRUE, v |-> x.v]
      [] x.t = "float" -> [ok |-> TRUE, v |-> trunc10(x.v)]
      [] OTHER -> [ok |-> FALSE, v |-> 0]

\* float(x)
PyFloat(x) ==
    CASE x.t = "str" -> float_text(x.s)
      [] x.t \in {"int", "bool"} -> [ok |-> TRUE, f |-> Fin(10 * x.v)]
      [] x.t = "float" -> [ok |-> TRUE, f |-> Fin(x.v)]
      [] x.t = "nan" -> [ok |-> TRUE, f |-> NaN]
      [] OTHER -> [ok |-> FALSE, f |-> NaN]

\* bool(x): Python truthiness
Truthy(x) ==
    CASE x.t = "str" -> x.s # <<>>
      [] x.t \in {"int", "bool", "float"} -> x.v # 0
      [] x.t = "nan" -> TRUE
      [] OTHER -> FALSE

\* json.loads(event.get('body', '{}')): the exception it raises, "" when none
json_loads_exc(body) ==
    CASE body.k = "None" -> "TypeError"
      [] body.k = "invalid" -> "JSONDecodeError"
      [] OTHER -> ""

\* ----------------------------------------------------------------- envelope

NoArg == <<>>
NoData == <<>>
NoResponse == [statusCode |-> 0]

\* create_response: the body stays structured (json.dumps is not modelled)
create_response(status_code, body) == [statusCode |-> status_code, body |-> body]

\* create_error_response: details is "" when the call passes none (or a falsy one);
\* arg carries what the message interpolates
ErrorBody(status_code, error_message, arg, details) ==
    [kind |-> "error", error |-> error_message, arg |-> arg, statusCode |-> status_code,
     details |-> details, data |-> NoData, message |-> "", pagination |-> <<>>]

create_error_response(status_code, error_message, arg, details) ==
    create_response(status_code, ErrorBody(status_code, error_message, arg, details))

create_success_response(data, message) ==
    create_response(200,
        [kind |-> "success", error |-> "", arg |-> NoArg, statusCode |-> 200,
         details |-> "", data |-> data, message |-> message, pagination |-> <<>>])

create_paginated_response(data, page, limit, total_count, message) ==
    create_response(200,
        [kind |-> "success", error |-> "", arg |-> NoArg, statusCode |-> 200,
         details |-> "", data |-> data, message |-> message,
         pagination |-> <<[page |-> page,
                           limit |-> limit,
                           total_count |-> total_count,
                           total_pages |-> (total_count + limit - 1) \div limit,
                           has_next |-> page * limit < total_count,
                           has_previous |-> page > 1]>>])

CorsPreflight ==
    create_response(200,
        [kind |-> "cors", error |-> "", arg |-> NoArg, statusCode |-> 200,
         details |-> "", data |-> NoData, message |-> "CORS preflight", pagination |-> <<>>])

\* ------------------------------------------------------------------- store

\* users(id SERIAL, name VARCHAR(100) NOT NULL, email VARCHAR(255) UNIQUE NOT NULL,
\*       phone VARCHAR(20), bio TEXT, created_at, updated_at)
UserRow(id, name, email, phone, bio, created_at, updated_at) ==
    [id |-> id, name |-> name, email |-> email, phone |-> phone, bio |-> bio,
     created_at |-> created_at, updated_at |-> updated_at]

\* SELECT id, name, email, created_at, updated_at
UserColumns(r) ==
    [id |-> r.id, name |-> r.name, email |-> r.email,
     created_at |-> r.created_at, updated_at |-> r.updated_at]

NameColumnLen == 100
EmailColumnLen == 255
PhoneColumnLen == 20

SampleBio1 ==
    <<"S", "o", "f", "t", "w", "a", "r", "e", " ", "d", "e", "v", "e", "l", "o", "p", "e",
      "r", " ", "p", "a", "s", "s", "i", "o", "n", "a", "t", "e", " ", "a", "b", "o", "u",
      "t", " ", "f", "i", "t", "n", "e", "s", "s">>
SampleBio2 ==
    <<"P", "e", "r", "s", "o", "n", "a", "l", " ", "t", "r", "a", "i", "n", "e", "r", " ",
      "a", "n", "d", " ", "n", "u", "t", "r", "i", "t", "i", "o", "n", " ", "c", "o", "a",
      "c", "h">>

\* the rows init_database inserts
SampleUsers ==
    {UserRow(1, <<"J", "o", "h", "n", " ", "D", "o", "e">>,
             <<"j", "o", "h", "n", "@", "e", "x", "a", "m", "p", "l", "e", ".", "c", "o", "m">>,
             <<<<"+", "1", "-", "5", "5", "5", "-", "0", "1", "2", "3">>>>,
             <<SampleBio1>>, 0, 0),
     UserRow(2, <<"J", "a", "n", "e", " ", "S", "m", "i", "t", "h">>,
             <<"j", "a", "n", "e", "@", "e", "x", "a", "m", "p", "l", "e", ".", "c", "o", "m">>,
             <<<<"+", "1", "-", "5", "5", "5", "-", "0", "1", "2", "4">>>>,
             <<SampleBio2>>,
             0, 0)}

EmptyStore == [users |-> {}, avatars |-> {}, nextId |-> 1, nextAvatarId |-> 1]
SampleStore == [users |-> SampleUsers, avatars |-> {}, nextId |-> 3, nextAvatarId |-> 1]

\* What one dispatch works on: db the committed store, tx what the connection
\* sees, clock the store's NOW(), log the statements, commits and rollbacks so
\* far, fault the driver fault to meet ([at |-> n, kind |-> k]: the n-th data
\* statement fails; at = 0: none), tie the order the store gives rows of equal
\* created_at.
Ctx(store, now, flt, tie) ==
    [db |-> store, tx |-> store, clock |-> now, log |-> <<>>, fault |-> flt, tie |-> tie]

NoFault == [at |-> 0, kind |-> "none"]

\* what the log holds besides data statements: the cursor's life, the timeout
\* command (accepted or rejected by the driver), commits and rollbacks
Bookkeeping ==
    {"COMMIT", "ROLLBACK", "SET statement_timeout", "SET statement_timeout rejected",
     "cursor", "cursor.close"}

\* the data statements handed to the driver so far
DataStatements(l) == SelectSeq(l, LAMBDA e : e \notin Bookkeeping)

\* A statement evaluated on the store the connection sees: op its text, err
\* whether the store rejects it, tx the store after it, rows its result set,
\* rowcount the rows it touched.
Stmt(op, err, tx, rows, rowcount) ==
    [op |-> op, err |-> err, tx |-> tx, rows |-> rows, rowcount |-> rowcount]

Before(a, b, tie) ==
    \/ a.created_at > b.created_at
    \/ a.created_at = b.created_at /\ (IF tie = "asc" THEN a.id < b.id ELSE a.id > b.id)

\* ORDER BY created_at DESC
RECURSIVE OrderRows(_, _)
OrderRows(S, tie) ==
    IF S = {} THEN <<>>
    ELSE LET r == CHOOSE r \in S : \A o \in S \ {r} : Before(r, o, tie)
         IN <<r>> \o OrderRows(S \ {r}, tie)

Min(a, b) == IF a < b THEN a ELSE b

\* name ILIKE %search% OR email ILIKE %search%
Matches(r, search) ==
    \/ Contains(lower(r.name), lower(search))
    \/ Contains(lower(r.email), lower(search))

\* search is <<>> (no WHERE clause) or <<text>>
Filtered(tx, search) ==
    IF search = <<>> THEN tx.users ELSE {r \in tx.users : Matches(r, search[1])}

SelectHealth(tx) == Stmt("SELECT 1", FALSE, tx, <<[health_check |-> 1]>>, 1)

\* a listing that always starts at the first row, to compare against
SelectUsersFromStart(tx, limit, offset, search, tie) ==
    LET all == OrderRows(Filtered(tx, search), tie)
        page == IF limit < 0 \/ offset < 0 THEN <<>> ELSE SubSeq(all, 1, Min(limit, Len(all)))
    IN Stmt("SELECT users LIMIT OFFSET", limit < 0 \/ offset < 0, tx,
            [i \in 1..Len(page) |-> UserColumns(page[i])], Len(page))

SelectUsers(tx, limit, offset, search, tie) ==
    LET all == OrderRows(Filtered(tx, search), tie)
        page == IF limit < 0 \/ offset < 0 THEN <<>>
                ELSE SubSeq(all, offset + 1, Min(offset + limit, Len(all)))
    IN Stmt("SELECT users LIMIT OFFSET", limit < 0 \/ offset < 0, tx,
            [i \in 1..Len(page) |-> UserColumns(page[i])], Len(page))

CountUsers(tx, search) ==
    Stmt("SELECT COUNT users", FALSE, tx,
         <<[total |-> Cardinality(Filtered(tx, search))]>>, 1)

SelectUserById(tx, id) ==
    LET hit == {r \in tx.users : r.id = id}
    IN Stmt("SELECT users BY id", FALSE, tx,
            IF hit = {} THEN <<>> ELSE <<UserColumns(CHOOSE r \in hit : TRUE)>>,
            Cardinality(hit))

SelectUserByEmail(tx, email) ==
    LET hit == {r \in tx.users : r.email = email}
    IN Stmt("SELECT users BY email", FALSE, tx,
            IF hit = {} THEN <<>> ELSE <<UserColumns(CHOOSE r \in hit : TRUE)>>,
            Cardinality(hit))

TooLong(opt, n) == opt # <<>> /\ Len(opt[1]) > n

\* the column constraints of a users row, given the other rows
RowRejected(r, others) ==
    \/ Len(r.name) > NameColumnLen
    \/ Len(r.email) > EmailColumnLen
    \/ TooLong(r.phone, PhoneColumnLen)
    \/ \E o \in others : o.email = r.email

\* INSERT INTO users (...) VALUES (%s, %s, %s, %s, NOW(), NOW()) RETURNING ...
\* The id sequence advances whether or not the row is accepted.
InsertUser(tx, now, name, email, phone, bio) ==
    LET r == UserRow(tx.nextId, name, email, phone, bio, now, now)
        bad == RowRejected(r, tx.users)
    IN Stmt("INSERT users", bad,
            [tx EXCEPT !.nextId = @ + 1, !.users = IF bad THEN @ ELSE @ \cup {r}],
            IF bad THEN <<>> ELSE <<r>>, IF bad THEN 0 ELSE 1)

\* an UPDATE that also resets the optional columns it is not given, to compare against
PatchedWhole(r, updates, now) ==
    [r EXCEPT !.name = IF "name" \in DOMAIN updates THEN updates["name"] ELSE @,
              !.email = IF "email" \in DOMAIN updates THEN updates["email"] ELSE @,
              !.phone = IF "phone" \in DOMAIN updates THEN updates["phone"] ELSE <<>>,
              !.bio = IF "bio" \in DOMAIN updates THEN updates["bio"] ELSE <<>>,
              !.updated_at = now]

\* updates: a function from the supplied column names to their new values
\* (name, email: text; phone, bio: optional text)
Patched(r, updates, now) ==
    [r EXCEPT !.name = IF "name" \in DOMAIN updates THEN updates["name"] ELSE @,
              !.email = IF "email" \in DOMAIN updates THEN updates["email"] ELSE @,
              !.phone = IF "phone" \in DOMAIN updates THEN updates["phone"] ELSE @,
              !.bio = IF "bio" \in DOMAIN updates THEN updates["bio"] ELSE @,
              !.updated_at = now]

\* UPDATE users SET <supplied columns>, updated_at = NOW() WHERE id = %s RETURNING ...
UpdateUser(tx, now, id, updates) ==
    LET hit == {r \in tx.users : r.id = id}
        new == {Patched(r, updates, now) : r \in hit}
        bad == \E r \in new : RowRejected(r, tx.users \ hit)
    IN Stmt("UPDATE users", bad,
            IF bad THEN tx ELSE [tx EXCEPT !.users = (@ \ hit) \cup new],
            IF bad \/ new = {} THEN <<>> ELSE <<CHOOSE r \in new : TRUE>>,
            IF bad THEN 0 ELSE Cardinality(hit))

\* DELETE FROM users WHERE id = %s; avatars.user_id references users ON DELETE CASCADE
DeleteUser(tx, id) ==
    LET hit == {r \in tx.users : r.id = id}
    IN Stmt("DELETE users", FALSE,
            [tx EXCEPT !.users = @ \ hit,
                       !.avatars = {a \in @ : a.user_id # id}],
            <<>>, Cardinality(hit))

\* connection.commit() / connection.rollback()
commit(ctx) == [ctx EXCEPT !.db = ctx.tx, !.log = Append(@, "COMMIT")]
rollback(ctx) ==
    [ctx EXCEPT !.tx = [ctx.db EXCEPT !.nextId = ctx.tx.nextId,
                                      !.nextAvatarId = ctx.tx.nextAvatarId],
                !.db = [ctx.db EXCEPT !.nextId = ctx.tx.nextId,
                                      !.nextAvatarId = ctx.tx.nextAvatarId],
                !.log = Append(@, "ROLLBACK")]

\* the result of a call: ctx after it, exc the exception it raised ("" for
\* none) with its message msg, val what it returned
Ret(ctx, val) == [ctx |-> ctx, exc |-> "", msg |-> "", val |-> val]
Raise(ctx, exc, msg) == [ctx |-> ctx, exc |-> exc, msg |-> msg, val |-> <<>>]

\* `value = <call>` followed by the statements Rest that read it
With(value, Rest(_)) == Rest(value)

\* a cursor that is left open, to compare against
LeftOpen(ctx) == ctx

\* `finally: if cursor: cursor.close()`
close(ctx) == [ctx EXCEPT !.log = Append(@, "cursor.close")]

\* the message execute_query gives the driver's exception
QueryError(kind) ==
    IF kind = "timeout" THEN "Database query timeout" ELSE "Database query failed"

\* a driver that rejects every SET statement_timeout, to compare against
TimeoutCommandRejected(flt, n) == "SET statement_timeout rejected"

\* `cursor.execute(f"SET statement_timeout = '{timeout}s'")` before the n-th data
\* statement; `except psycopg2.Error:` the command is given up and the
\* statement goes ahead without it
TimeoutCommand(flt, n) ==
    IF flt.at = n /\ flt.kind = "set" THEN "SET statement_timeout rejected"
    ELSE "SET statement_timeout"

\* execute_query(connection, query, params, fetch, timeout).  The statement is
\* q.  The fault's statement meets a driver that raises QueryCanceledError
\* ("timeout") or another psycopg2.Error ("error") on it, or that rejects the
\* SET statement_timeout before it ("set"); the driver also raises when the
\* store rejects q.  val is <<rows, rowcount>>.
execute_query(ctx, q, fetch) ==
    LET n == Len(DataStatements(ctx.log)) + 1
        met == ctx.fault.at = n
        injected == met /\ ctx.fault.kind \in {"timeout", "error"}
        sent == [ctx EXCEPT !.log = @ \o <<"cursor", TimeoutCommand(ctx.fault, n), q.op>>]
    IN IF injected
       THEN Raise(close(rollback(sent)), "Exception", QueryError(ctx.fault.kind))
       ELSE IF q.err
       THEN Raise(close(rollback([sent EXCEPT !.tx = q.tx])), "Exception", QueryError("error"))
       ELSE IF fetch
       THEN Ret(close([sent EXCEPT !.tx = q.tx]), <<q.rows, q.rowcount>>)
       ELSE Ret(close(commit([sent EXCEPT !.tx = q.tx])), <<q.rows, q.rowcount>>)

\* json.dumps(body) in create_response, called without `default`: a TypeError
\* when the body holds rows whose timestamps are datetime objects
Unserializable(ctx, rows) ==
    /\ rows # <<>>
    /\ ctx.fault.kind = "datetime"
    /\ ctx.fault.at <= Len(DataStatements(ctx.log))

\* `return create_success_response(...)` inside a handler's try: the response,
\* or the handler's `except Exception` answer when the encoder raises
Respond(ctx, rows, success, failure) ==
    IF Unserializable(ctx, rows)
    THEN [resp |-> create_error_response(500, failure, NoArg, "TypeError"), ctx |-> ctx]
    ELSE [resp |-> success, ctx |-> ctx]

\* --------------------------------------------------------------- User model

\* `if search:` an absent or empty search adds no WHERE clause
SearchClause(search) == IF search # <<>> /\ search[1] # <<>> THEN search ELSE <<>>

\* User.get_all: the rows; an exception is logged and re-raised
User_get_all(ctx, limit, offset, search) ==
    With(execute_query(ctx, SelectUsers(ctx.tx, limit, offset, SearchClause(search), ctx.tie),
                       TRUE),
         LAMBDA r : IF r.exc # "" THEN r ELSE Ret(r.ctx, r.val[1]))

\* a lookup that counts the table before it selects the row, to compare against
User_get_by_id_counted(ctx, user_id) ==
    With(execute_query(ctx, CountUsers(ctx.tx, <<>>), TRUE), LAMBDA c :
        IF c.exc # "" THEN c
        ELSE With(execute_query(c.ctx, SelectUserById(c.ctx.tx, user_id), TRUE),
                  LAMBDA r : IF r.exc # "" THEN r
                             ELSE Ret(r.ctx, IF r.val[1] # <<>> THEN <<r.val[1][1]>> ELSE <<>>)))

\* User.get_by_id: <<row>>, or <<>> (None) when no row has the id
User_get_by_id(ctx, user_id) ==
    With(execute_query(ctx, SelectUserById(ctx.tx, user_id), TRUE),
         LAMBDA r : IF r.exc # "" THEN r
                    ELSE Ret(r.ctx, IF r.val[1] # <<>> THEN <<r.val[1][1]>> ELSE <<>>))

\* a lookup by email that never finds a row, to compare against
NoUserByEmail(ctx, email) ==
    With(execute_query(ctx, SelectUserByEmail(ctx.tx, email), TRUE),
         LAMBDA r : IF r.exc # "" THEN r ELSE Ret(r.ctx, <<>>))

\* User.get_by_email
User_get_by_email(ctx, email) ==
    With(execute_query(ctx, SelectUserByEmail(ctx.tx, email), TRUE),
         LAMBDA r : IF r.exc # "" THEN r
                    ELSE Ret(r.ctx, IF r.val[1] # <<>> THEN <<r.val[1][1]>> ELSE <<>>))

\* an except clause that re-raises and leaves the transaction as it is, to
\* compare against
RaiseOnly(r) == Raise(r.ctx, r.exc, r.msg)

\* the except clause of the write methods: connection.rollback(), then re-raise
RollbackAndRaise(r) == Raise(rollback(r.ctx), r.exc, r.msg)

\* User.create(name, email, phone=, bio=): the row INSERT returns
User_create(ctx, name, email, phone, bio) ==
    With(User_get_by_email(ctx, email), LAMBDA existing :
        IF existing.exc # "" THEN RollbackAndRaise(existing)
        ELSE IF existing.val # <<>>
        THEN RollbackAndRaise(Raise(existing.ctx, "ValueError", "User with email already exists"))
        ELSE With(execute_query(existing.ctx,
                                InsertUser(existing.ctx.tx, existing.ctx.clock,
                                           name, email, phone, bio),
                                TRUE),
                  LAMBDA result : IF result.exc # "" THEN RollbackAndRaise(result)
                                  ELSE Ret(commit(result.ctx), result.val[1][1])))

AllowedUserFields == {"name", "email", "phone", "bio"}

\* User.update(user_id, **updates): <<row>>, or <<>> (None) when the user is missing
User_update(ctx, user_id, updates) ==
    With(User_get_by_id(ctx, user_id), LAMBDA existing :
        IF existing.exc # "" THEN RollbackAndRaise(existing)
        ELSE IF existing.val = <<>> THEN Ret(existing.ctx, <<>>)
        ELSE IF DOMAIN updates \cap AllowedUserFields = {}
        THEN RollbackAndRaise(Raise(existing.ctx, "ValueError", "No valid fields to update"))
        ELSE With(execute_query(existing.ctx,
                                UpdateUser(existing.ctx.tx, existing.ctx.clock, user_id,
                                           [f \in DOMAIN updates \cap AllowedUserFields |->
                                               updates[f]]),
                                TRUE),
                  LAMBDA result :
                      IF result.exc # "" THEN RollbackAndRaise(result)
                      ELSE IF result.val[1] = <<>>
                      THEN RollbackAndRaise(Raise(commit(result.ctx), "IndexError",
                                                  "list index out of range"))
                      ELSE Ret(commit(result.ctx), <<result.val[1][1]>>)))

\* a delete that sends its DELETE unseen and reports success, to compare against
User_delete_blind(ctx, user_id) ==
    With(execute_query(ctx, DeleteUser(ctx.tx, user_id), FALSE),
         LAMBDA result : IF result.exc # "" THEN RollbackAndRaise(result)
                         ELSE Ret(commit(result.ctx), TRUE))

\* User.delete(user_id): whether a row was removed
User_delete(ctx, user_id) ==
    With(User_get_by_id(ctx, user_id), LAMBDA existing :
        IF existing.exc # "" THEN RollbackAndRaise(existing)
        ELSE IF existing.val = <<>> THEN Ret(existing.ctx, FALSE)
        ELSE With(execute_query(existing.ctx, DeleteUser(existing.ctx.tx, user_id), FALSE),
                  LAMBDA result : IF result.exc # "" THEN RollbackAndRaise(result)
                                  ELSE Ret(commit(result.ctx), result.val[2] > 0)))

\* a count of all users whatever the search, to compare against
User_count_all(ctx, search) ==
    With(execute_query(ctx, CountUsers(ctx.tx, <<>>), TRUE),
         LAMBDA r : IF r.exc # "" THEN r ELSE Ret(r.ctx, r.val[1][1].total))

\* User.count(search)
User_count(ctx, search) ==
    With(execute_query(ctx, CountUsers(ctx.tx, SearchClause(search)), TRUE),
         LAMBDA r : IF r.exc # "" THEN r ELSE Ret(r.ctx, r.val[1][1].total))

\* ------------------------------------------------------------- Avatar model

\* The methods class Avatar defines and the positional arguments each takes
\* after self: list_by_user(user_id, limit, offset), get(avatar_id),
\* create(**kwargs), update_partial(avatar_id, **fields), delete(avatar_id).
AvatarMethods ==
    [list_by_user |-> 3, get |-> 1, create |-> 0, update_partial |-> 1, delete |-> 1]

\* What calling Avatar(connection).<method> with nargs positional arguments
\* raises before the method body runs: AttributeError for a name the class
\* does not define, TypeError for more positional arguments than it takes.
AvatarCallError(method, nargs) ==
    IF method \notin DOMAIN AvatarMethods THEN "AttributeError"
    ELSE IF nargs > AvatarMethods[method] THEN "TypeError"
    ELSE ""

\* avatar_model.<method>(...) as the routes call it: the call raises before any
\* statement; were it accepted, it would return None
avatar_model_call(ctx, method, nargs) ==
    [ctx |-> ctx, exc |-> AvatarCallError(method, nargs),
     msg |-> AvatarCallError(method, nargs), val |-> <<>>]

\* The data columns of the avatars table: display_name VARCHAR(255), age
\* INTEGER, gender VARCHAR(50), six NUMERIC(5,2) measurements, notes TEXT.
AvatarDataColumns ==
    {"display_name", "age", "gender", "height_cm", "weight_kg", "body_fat_percent",
     "shoulder_circumference_cm", "waist_cm", "hips_cm", "notes"}

\* Avatar.NUMERIC_FIELDS, the NUMERIC(5,2) columns
NUMERIC_FIELDS ==
    {"height_cm", "weight_kg", "body_fat_percent", "shoulder_circumference_cm", "waist_cm",
     "hips_cm"}

AvatarColumns == {"id", "user_id", "created_at", "updated_at"} \cup AvatarDataColumns

\* what a NUMERIC column holds for a number handed to it: a Decimal (in tenths)
Decimal(x10) == [t |-> "Decimal", s |-> <<>>, v |-> x10]

\* the value column c stores for parameter x
Stored(c, x) ==
    IF c \in NUMERIC_FIELDS /\ x.t = "int" THEN Decimal(10 * x.v)
    ELSE IF c \in NUMERIC_FIELDS /\ x.t = "float" THEN Decimal(x.v)
    ELSE x

\* an avatars row: id, user_id and the timestamps are integers, a data column
\* holds a value or JNull (SQL NULL)
AvatarRow(id, user_id, values, created_at, updated_at) ==
    [c \in AvatarColumns |->
        CASE c = "id" -> id
          [] c = "user_id" -> user_id
          [] c = "created_at" -> created_at
          [] c = "updated_at" -> updated_at
          [] OTHER -> IF c \in DOMAIN values THEN Stored(c, values[c]) ELSE JNull]

\* the column and foreign-key constraints of an avatars row
AvatarRowRejected(r, tx, others) ==
    \/ r.user_id \notin {u.id : u \in tx.users}
    \/ r.id \in {o.id : o \in others}
    \/ Len(r.display_name.s) > 255
    \/ Len(r.gender.s) > 50
    \/ \E c \in NUMERIC_FIELDS : r[c].v >= 10000 \/ r[c].v <= -10000

\* Avatar._serialize(row): Decimal values become floats
_serialize(row) ==
    [c \in DOMAIN row |->
        IF c \in NUMERIC_FIELDS /\ row[c].t = "Decimal" THEN JFloat(row[c].v) ELSE row[c]]

\* SELECT * FROM avatars WHERE id = %s
SelectAvatarById(tx, id) ==
    LET hit == {r \in tx.avatars : r.id = id}
    IN Stmt("SELECT avatars BY id", FALSE, tx,
            IF hit = {} THEN <<>> ELSE <<CHOOSE r \in hit : TRUE>>, Cardinality(hit))

\* ORDER BY created_at DESC, id DESC
RECURSIVE OrderAvatars(_)
OrderAvatars(S) ==
    IF S = {} THEN <<>>
    ELSE LET r == CHOOSE r \in S : \A o \in S \ {r} : Before(r, o, "desc")
         IN <<r>> \o OrderAvatars(S \ {r})

\* SELECT * FROM avatars WHERE user_id = %s ORDER BY ... [LIMIT %s] [OFFSET %s];
\* limit is <<>> (None) or <<n>>
SelectAvatarsByUser(tx, user_id, limit, offset) ==
    LET all == OrderAvatars({r \in tx.avatars : r.user_id = user_id})
        bad == offset < 0 \/ (limit # <<>> /\ limit[1] < 0)
        last == IF limit = <<>> THEN Len(all) ELSE Min(offset + limit[1], Len(all))
        page == IF bad THEN <<>> ELSE SubSeq(all, offset + 1, last)
    IN Stmt("SELECT avatars BY user_id", bad, tx, page, Len(page))

\* INSERT INTO avatars (<the keys of kwargs>) VALUES (...) RETURNING *; the
\* timestamps default to NOW().  The id sequence advances whether or not the
\* row is accepted.
InsertAvatar(tx, now, kwargs) ==
    LET unknown == DOMAIN kwargs \ AvatarColumns # {}
        r == AvatarRow(tx.nextAvatarId, kwargs["user_id"],
                       [c \in DOMAIN kwargs \cap AvatarDataColumns |-> kwargs[c]], now, now)
        bad == unknown \/ "user_id" \notin DOMAIN kwargs \/ AvatarRowRejected(r, tx, tx.avatars)
    IN Stmt("INSERT avatars", bad,
            [tx EXCEPT !.nextAvatarId = @ + 1, !.avatars = IF bad THEN @ ELSE @ \cup {r}],
            IF bad THEN <<>> ELSE <<r>>, IF bad THEN 0 ELSE 1)

\* the row r after SET <the keys of fields>, updated_at = NOW()
PatchedAvatar(r, fields, now) ==
    [c \in DOMAIN r |->
        IF c = "updated_at" THEN now
        ELSE IF c \in DOMAIN fields
        THEN (IF c \in AvatarDataColumns THEN Stored(c, fields[c]) ELSE fields[c])
        ELSE r[c]]

\* UPDATE avatars SET <the keys of fields>, updated_at = NOW() WHERE id = %s RETURNING *
UpdateAvatar(tx, now, id, fields) ==
    LET hit == {r \in tx.avatars : r.id = id}
        unknown == DOMAIN fields \ (AvatarColumns \ {"updated_at"}) # {}
        new == IF unknown THEN {} ELSE {PatchedAvatar(r, fields, now) : r \in hit}
        bad == unknown \/ \E r \in new : AvatarRowRejected(r, tx, tx.avatars \ hit)
    IN Stmt("UPDATE avatars", bad,
            IF bad THEN tx ELSE [tx EXCEPT !.avatars = (@ \ hit) \cup new],
            IF bad \/ new = {} THEN <<>> ELSE <<CHOOSE r \in new : TRUE>>,
            IF bad THEN 0 ELSE Cardinality(hit))

\* DELETE FROM avatars WHERE id = %s RETURNING id
DeleteAvatar(tx, id) ==
    LET hit == {r \in tx.avatars : r.id = id}
    IN Stmt("DELETE avatars", FALSE, [tx EXCEPT !.avatars = @ \ hit],
            IF hit = {} THEN <<>> ELSE <<[id |-> id]>>, Cardinality(hit))

\* Avatar.list_by_user(user_id, limit=None, offset=0)
Avatar_list_by_user(ctx, user_id, limit, offset) ==
    With(execute_query(ctx, SelectAvatarsByUser(ctx.tx, user_id, limit, offset), TRUE),
         LAMBDA rows : IF rows.exc # "" THEN RollbackAndRaise(rows)
                       ELSE Ret(commit(rows.ctx),
                                [i \in 1..Len(rows.val[1]) |-> _serialize(rows.val[1][i])]))

\* Avatar.get(avatar_id): <<row>>, or <<>> (None) when no row has the id
Avatar_get(ctx, avatar_id) ==
    With(execute_query(ctx, SelectAvatarById(ctx.tx, avatar_id), TRUE),
         LAMBDA rows : IF rows.exc # "" THEN RollbackAndRaise(rows)
                       ELSE Ret(commit(rows.ctx),
                                IF rows.val[1] = <<>> THEN <<>>
                                ELSE <<_serialize(rows.val[1][1])>>))

REQUIRED_FIELDS == <<"user_id", "display_name">>

\* `not kwargs.get(field)` for a required field: user_id is an integer,
\* display_name a value
MissingField(kwargs, field) ==
    \/ field \notin DOMAIN kwargs
    \/ field = "user_id" /\ kwargs[field] = 0
    \/ field # "user_id" /\ ~Truthy(kwargs[field])

\* Avatar.create(**kwargs): the row INSERT returns; the required fields are
\* checked outside the try block
Avatar_create(ctx, kwargs) ==
    IF SelectSeq(REQUIRED_FIELDS, LAMBDA f : MissingField(kwargs, f)) # <<>>
    THEN Raise(ctx, "ValueError", "Missing required avatar fields")
    ELSE With(execute_query(ctx, InsertAvatar(ctx.tx, ctx.clock, kwargs), TRUE),
              LAMBDA rows : IF rows.exc # "" THEN RollbackAndRaise(rows)
                            ELSE Ret(commit(rows.ctx), _serialize(rows.val[1][1])))

\* `if not fields:` of update_partial
NotFields(fields) == DOMAIN fields = {}

\* Avatar.update_partial(avatar_id, **fields): <<row>>, or <<>> (None) when no
\* row has the id; the empty check is outside the try block
Avatar_update_partial(ctx, avatar_id, fields) ==
    IF NotFields(fields) THEN Raise(ctx, "ValueError", "No fields provided for avatar update")
    ELSE With(execute_query(ctx, UpdateAvatar(ctx.tx, ctx.clock, avatar_id, fields), TRUE),
              LAMBDA rows : IF rows.exc # "" THEN RollbackAndRaise(rows)
                            ELSE Ret(commit(rows.ctx),
                                     IF rows.val[1] = <<>> THEN <<>>
                                     ELSE <<_serialize(rows.val[1][1])>>))

\* Avatar.delete(avatar_id): bool(rows)
Avatar_delete(ctx, avatar_id) ==
    With(execute_query(ctx, DeleteAvatar(ctx.tx, avatar_id), TRUE),
         LAMBDA rows : IF rows.exc # "" THEN RollbackAndRaise(rows)
                       ELSE Ret(commit(rows.ctx), rows.val[1] # <<>>))

CUT == <<"C", "u", "t">>
BULK == <<"B", "u", "l", "k">>

\* the sample users, each with one avatar: avatar 1 is Jane Smith's (user 2),
\* avatar 2 is John Doe's (user 1)
SampleAvatars ==
    {AvatarRow(1, 2, [display_name |-> JStr(CUT), age |-> JInt(30), weight_kg |-> JInt(70)],
               0, 0),
     AvatarRow(2, 1, [display_name |-> JStr(BULK)], 0, 0)}

AvatarStore == [users |-> SampleUsers, avatars |-> SampleAvatars, nextId |-> 3, nextAvatarId |-> 3]

\* -------------------------------------------------------------- user routes

\* what a handler hands back: the envelope and the dispatch context after it
Out(resp, ctx) == [resp |-> resp, ctx |-> ctx]

\* query_params.get(name, default) followed by int(): ok = FALSE is ValueError
IntParam(q, name, default) ==
    IF name \in DOMAIN q THEN int_text(q[name]) ELSE [ok |-> TRUE, v |-> default]

\* query_params.get(name): <<>> (None) or <<text>>
Param(q, name) == IF name \in DOMAIN q THEN <<q[name]>> ELSE <<>>

\* the tail both listings share once limit, offset and the search term are known
ListUsers(ctx, lim, off, search, failure, found) ==
    IF ~lim.ok \/ ~off.ok
    THEN Out(create_error_response(400, "Invalid query parameters", NoArg, "ValueError"), ctx)
    ELSE With(User_get_all(ctx, Min(lim.v, MaxLimit), off.v, search), LAMBDA users :
        IF users.exc # ""
        THEN Out(create_error_response(500, failure, NoArg, users.msg), users.ctx)
        ELSE With(User_count(users.ctx, search), LAMBDA total :
            IF total.exc # ""
            THEN Out(create_error_response(500, failure, NoArg, total.msg), total.ctx)
            ELSE IF Min(lim.v, MaxLimit) = 0
            THEN Out(create_error_response(500, failure, NoArg, "ZeroDivisionError"), total.ctx)
            ELSE Respond(total.ctx, users.val,
                         create_paginated_response(users.val,
                                                   (off.v \div Min(lim.v, MaxLimit)) + 1,
                                                   Min(lim.v, MaxLimit), total.val, found),
                         failure)))

\* get_users(event, connection)
get_users(ev, ctx) ==
    ListUsers(ctx, IntParam(ev.query, "limit", DefaultLimit), IntParam(ev.query, "offset", 0),
              Param(ev.query, "search"), "Failed to retrieve users", "Retrieved users")

\* search_users(event, connection)
search_users(ev, ctx) ==
    LET search_term == IF "q" \in DOMAIN ev.query THEN strip(ev.query["q"]) ELSE <<>>
    IN IF search_term = <<>>
       THEN Out(create_error_response(400, "Search term is required (use ?q=search_term)",
                                      NoArg, ""), ctx)
       ELSE IF Len(search_term) < 2
       THEN Out(create_error_response(400, "Search term must be at least 2 characters",
                                      NoArg, ""), ctx)
       ELSE ListUsers(ctx, IntParam(ev.query, "limit", DefaultSearchLimit),
                      IntParam(ev.query, "offset", 0), <<search_term>>,
                      "Failed to search users", "Found users matching")

\* body.get(key, '').strip(): ok = FALSE is the AttributeError of a value that
\* is not a str
StrippedField(o, key) ==
    IF key \notin DOMAIN o THEN [ok |-> TRUE, s |-> <<>>]
    ELSE IF o[key].t = "str" THEN [ok |-> TRUE, s |-> strip(o[key].s)]
    ELSE [ok |-> FALSE, s |-> <<>>]

\* '@' not in email or '.' not in email.split('@')[-1]
BadEmail(email) == ~Contains(email, <<"@">>) \/ ~Contains(AfterLast(email, "@"), <<".">>)

\* a create_user that hands empty optional fields on as they are, to compare against
OrNoneKeepsEmpty(s) == <<s>>

\* `x if x else None` for a text
OrNone(s) == IF s # <<>> THEN <<s>> ELSE <<>>

\* a name check that lets any length pass, to compare against
NameLengthUnchecked(name) == FALSE

\* `len(name) < 2 or len(name) > 100`
NameLengthInvalid(name) == Len(name) < MinNameLen \/ Len(name) > MaxNameLen

\* create_user(event, connection)
create_user(ev, ctx) ==
    LET exc == json_loads_exc(ev.body)
        o == ev.body.o
        name == StrippedField(o, "name")
        email == StrippedField(o, "email")
        phone == StrippedField(o, "phone")
        bio == StrippedField(o, "bio")
        failed(details) == Out(create_error_response(500, "Failed to create user", NoArg, details), ctx)
        invalid(message) == Out(create_error_response(400, message, NoArg, ""), ctx)
    IN IF exc = "JSONDecodeError" THEN invalid("Invalid JSON in request body")
       ELSE IF exc # "" THEN failed(exc)
       ELSE IF ev.body.k \notin {"absent", "object"} THEN failed("AttributeError")
       ELSE IF ~name.ok \/ ~email.ok THEN failed("AttributeError")
       ELSE IF name.s = <<>> \/ email.s = <<>> THEN invalid("Name and email are required")
       ELSE IF NameLengthInvalid(name.s)
       THEN invalid("Name must be between 2 and 100 characters")
       ELSE IF BadEmail(lower(email.s)) THEN invalid("Invalid email format")
       ELSE IF ~phone.ok \/ ~bio.ok THEN failed("AttributeError")
       ELSE IF Len(phone.s) > MaxPhoneLen THEN invalid("Phone number too long")
       ELSE IF Len(bio.s) > MaxBioLen THEN invalid("Bio must be less than 500 characters")
       ELSE With(User_create(ctx, name.s, lower(email.s), OrNone(phone.s), OrNone(bio.s)),
                 LAMBDA new_user :
           IF new_user.exc = "ValueError"
           THEN Out(create_error_response(400, new_user.msg, NoArg, ""), new_user.ctx)
           ELSE IF new_user.exc # ""
           THEN Out(create_error_response(500, "Failed to create user", NoArg, new_user.msg),
                    new_user.ctx)
           ELSE Respond(new_user.ctx, <<new_user.val>>,
                        create_success_response(new_user.val, "User created successfully"),
                        "Failed to create user"))

\* int(user_id) with `if user_id_int <= 0: raise ValueError`: ok = FALSE is the
\* ValueError the user routes answer with 400
UserIdArg(user_id) ==
    LET p == int_text(user_id) IN [ok |-> p.ok /\ p.v > 0, v |-> p.v]

InvalidUserId(ctx) == Out(create_error_response(400, "Invalid user ID format", NoArg, ""), ctx)

\* user['avatars'] = ...
WithAvatars(user, avatars) ==
    [k \in DOMAIN user \cup {"avatars"} |-> IF k = "avatars" THEN avatars ELSE user[k]]

\* get_user(user_id, connection)
get_user(user_id, ctx) ==
    LET id == UserIdArg(user_id)
        failed(r) == Out(create_error_response(500, "Failed to retrieve user", NoArg, r.msg), r.ctx)
    IN IF ~id.ok THEN InvalidUserId(ctx)
       ELSE With(User_get_by_id(ctx, id.v), LAMBDA user :
           IF user.exc # "" THEN failed(user)
           ELSE IF user.val = <<>>
           THEN Out(create_error_response(404, "User not found", NoArg, ""), user.ctx)
           ELSE With(avatar_model_call(user.ctx, "list_for_user", 1), LAMBDA avatars :
               IF avatars.exc # "" THEN failed(avatars)
               ELSE Respond(avatars.ctx, user.val,
                            create_success_response(WithAvatars(user.val[1], avatars.val),
                                                    "User retrieved successfully"),
                            "Failed to retrieve user")))

\* delete_user(user_id, connection)
delete_user(user_id, ctx) ==
    LET id == UserIdArg(user_id)
    IN IF ~id.ok THEN InvalidUserId(ctx)
       ELSE With(User_delete(ctx, id.v), LAMBDA deleted :
           IF deleted.exc # ""
           THEN Out(create_error_response(500, "Failed to delete user", NoArg, deleted.msg),
                    deleted.ctx)
           ELSE IF ~deleted.val
           THEN Out(create_error_response(404, "User not found", NoArg, ""), deleted.ctx)
           ELSE Out(create_success_response([id |-> id.v], "User deleted successfully"),
                    deleted.ctx))

\* `body[key].strip() if body[key] else None`: val is <<>> (None) or <<text>>;
\* ok = FALSE is the AttributeError of a truthy value that is not a str
StrippedOrNone(o, key) ==
    IF key \notin DOMAIN o \/ ~Truthy(o[key]) THEN [ok |-> TRUE, val |-> <<>>]
    ELSE IF o[key].t = "str" THEN [ok |-> TRUE, val |-> <<strip(o[key].s)>>]
    ELSE [ok |-> FALSE, val |-> <<>>]

\* body[key].strip(): ok = FALSE is AttributeError
Stripped(x) == IF x.t = "str" THEN [ok |-> TRUE, s |-> strip(x.s)] ELSE [ok |-> FALSE, s |-> <<>>]

\* update_user(user_id, event, connection)
update_user(user_id, ev, ctx) ==
    LET id == UserIdArg(user_id)
        exc == json_loads_exc(ev.body)
        o == ev.body.o
        has(k) == k \in DOMAIN o
        name == IF has("name") THEN Stripped(o["name"]) ELSE [ok |-> TRUE, s |-> <<>>]
        email == IF has("email") THEN Stripped(o["email"]) ELSE [ok |-> TRUE, s |-> <<>>]
        phone == StrippedOrNone(o, "phone")
        bio == StrippedOrNone(o, "bio")
        updates == [k \in {f \in AllowedUserFields : has(f)} |->
                       CASE k = "name" -> name.s
                         [] k = "email" -> lower(email.s)
                         [] k = "phone" -> phone.val
                         [] OTHER -> bio.val]
        failed(details) == Out(create_error_response(500, "Failed to update user", NoArg, details), ctx)
        invalid(message) == Out(create_error_response(400, message, NoArg, ""), ctx)
    IN IF ~id.ok THEN InvalidUserId(ctx)
       ELSE IF exc = "JSONDecodeError" THEN invalid("Invalid JSON in request body")
       ELSE IF exc # "" THEN failed(exc)
       ELSE IF ev.body.k = "other" THEN failed("TypeError")
       ELSE IF ~name.ok THEN failed("AttributeError")
       ELSE IF has("name") /\ name.s = <<>> THEN invalid("Name cannot be empty")
       ELSE IF has("name") /\ NameLengthInvalid(name.s)
       THEN invalid("Name must be between 2 and 100 characters")
       ELSE IF ~email.ok THEN failed("AttributeError")
       ELSE IF has("email") /\ email.s = <<>> THEN invalid("Email cannot be empty")
       ELSE IF has("email") /\ BadEmail(lower(email.s)) THEN invalid("Invalid email format")
       ELSE IF ~phone.ok THEN failed("AttributeError")
       ELSE IF TooLong(phone.val, MaxPhoneLen) THEN invalid("Phone number too long")
       ELSE IF ~bio.ok THEN failed("AttributeError")
       ELSE IF TooLong(bio.val, MaxBioLen) THEN invalid("Bio must be less than 500 characters")
       ELSE IF DOMAIN updates = {} THEN invalid("No valid fields to update")
       ELSE With(User_update(ctx, id.v, updates), LAMBDA updated_user :
           IF updated_user.exc = "ValueError"
           THEN Out(create_error_response(400, updated_user.msg, NoArg, ""), updated_user.ctx)
           ELSE IF updated_user.exc # ""
           THEN Out(create_error_response(500, "Failed to update user", NoArg, updated_user.msg),
                    updated_user.ctx)
           ELSE IF updated_user.val = <<>>
           THEN Out(create_error_response(404, "User not found", NoArg, ""), updated_user.ctx)
           ELSE Respond(updated_user.ctx, updated_user.val,
                        create_success_response(updated_user.val[1], "User updated successfully"),
                        "Failed to update user"))

\* ------------------------------------------------------------ avatar routes

\* _parse_positive_int(value, error_message): ok = FALSE is its ValueError
_parse_positive_int(value) ==
    LET p == int_text(value) IN [ok |-> p.ok /\ p.v > 0, v |-> p.v]

allowed_fields ==
    {"display_name", "age", "gender", "height_cm", "weight_kg", "body_fat_percent",
     "shoulder_circumference_cm", "waist_cm", "hips_cm", "notes"}

\* the order in which _validate_avatar_payload visits the fields
FieldOrder ==
    <<"display_name", "age", "gender", "height_cm", "weight_kg", "body_fat_percent",
      "shoulder_circumference_cm", "waist_cm", "hips_cm", "notes">>

MALE == <<"m", "a", "l", "e">>
FEMALE == <<"f", "e", "m", "a", "l", "e">>
NONBINARY == <<"n", "o", "n", "-", "b", "i", "n", "a", "r", "y">>
OTHERG == <<"o", "t", "h", "e", "r">>
PREFERNOT == <<"p", "r", "e", "f", "e", "r", "_", "n", "o", "t", "_", "t", "o", "_", "s", "a", "y">>

allowed_genders ==
    {MALE, FEMALE, NONBINARY, OTHERG, PREFERNOT}

numeric_constraints ==
    [height_cm |-> <<50, 300>>, weight_kg |-> <<20, 500>>, body_fat_percent |-> <<0, 80>>,
     shoulder_circumference_cm |-> <<20, 300>>, waist_cm |-> <<30, 300>>,
     hips_cm |-> <<30, 300>>]

MaxDisplayNameLen == 255
MaxNotesLen == 1000
MinAge == 0
MaxAge == 120

\* the outcome of one field: err its ValueError message ("" when accepted),
\* val the cleaned value (JNull for None)
Cleaned(val) == [err |-> "", val |-> val]
Rejected(err) == [err |-> err, val |-> JNull]

IsBlank(x) == x.t = "NoneType" \/ strip(PyStr(x)) = <<>>

CleanText(x, max, err) ==
    LET s == strip(PyStr(x))
    IN IF Len(s) > max THEN Rejected(err)
       ELSE Cleaned(IF s = <<>> THEN JNull ELSE JStr(s))

CleanAge(x) ==
    LET p == PyInt(x)
    IN IF IsBlank(x) THEN Cleaned(JNull)
       ELSE IF ~p.ok THEN Rejected("Age must be an integer")
       ELSE IF p.v < MinAge \/ p.v > MaxAge THEN Rejected("Age must be between 0 and 120")
       ELSE Cleaned(JInt(p.v))

CleanGender(x) ==
    LET gender == lower(strip(PyStr(x)))
    IN IF gender = <<>> THEN Cleaned(JNull)
       ELSE IF gender \notin allowed_genders
       THEN Rejected("Gender must be one of: male, female, non-binary, other, prefer_not_to_say")
       ELSE Cleaned(JStr(gender))

CleanNumber(field, x) ==
    LET p == PyFloat(x)
        minimum == numeric_constraints[field][1]
        maximum == numeric_constraints[field][2]
    IN IF IsBlank(x) THEN Cleaned(JNull)
       ELSE IF ~p.ok THEN Rejected("must be a number")
       ELSE IF FloatLt(p.f, minimum) \/ FloatGt(p.f, maximum) THEN Rejected("must be between")
       ELSE Cleaned(IF p.f.k = "nan" THEN JNaN ELSE JFloat(p.f.x10))

CleanField(field, x) ==
    CASE field = "display_name" ->
             CleanText(x, MaxDisplayNameLen, "Display name must be 255 characters or less")
      [] field = "age" -> CleanAge(x)
      [] field = "gender" -> CleanGender(x)
      [] field = "notes" -> CleanText(x, MaxNotesLen, "Notes must be 1000 characters or less")
      [] OTHER -> CleanNumber(field, x)

\* _validate_avatar_payload(payload, partial): err is the ValueError message
\* ("" when the payload is accepted), arg what the message names, cleaned the
\* dict returned
_validate_avatar_payload(body, partial) ==
    LET o == body.o
        unknown_fields == DOMAIN o \ allowed_fields
        present == SelectSeq(FieldOrder, LAMBDA f : f \in DOMAIN o)
        bad == SelectSeq(present, LAMBDA f : CleanField(f, o[f]).err # "")
        cleaned == [f \in DOMAIN o |-> CleanField(f, o[f]).val]
        reject(err, arg) == [err |-> err, arg |-> arg, cleaned |-> EmptyObject]
    IN IF body.k \notin {"absent", "object"} THEN reject("Payload must be a JSON object", NoArg)
       ELSE IF unknown_fields # {} THEN reject("Unsupported avatar fields", [fields |-> unknown_fields])
       ELSE IF bad # <<>> THEN reject(CleanField(bad[1], o[bad[1]]).err, [field |-> bad[1]])
       ELSE IF ~partial /\ DOMAIN cleaned = {}
       THEN reject("At least one avatar attribute must be provided", NoArg)
       ELSE IF partial /\ DOMAIN cleaned = {}
       THEN reject("No valid avatar fields provided for update", NoArg)
       ELSE [err |-> "", arg |-> NoArg, cleaned |-> cleaned]

\* the part create_avatar and update_avatar share: ids, body, validation, then
\* the model call
AvatarWrite(ids, ev, ctx, partial, method, nargs, failure, done) ==
    LET exc == json_loads_exc(ev.body)
        invalid(message, arg) == Out(create_error_response(400, message, arg, ""), ctx)
    IN IF \E i \in 1..Len(ids) : ~_parse_positive_int(ids[i]).ok
       THEN invalid(IF ~_parse_positive_int(ids[1]).ok THEN "Invalid user ID format"
                    ELSE "Invalid avatar ID format", NoArg)
       ELSE IF exc = "JSONDecodeError" THEN invalid("Invalid JSON in request body", NoArg)
       ELSE IF exc # "" THEN Out(create_error_response(500, failure, NoArg, exc), ctx)
       ELSE With(_validate_avatar_payload(ev.body, partial), LAMBDA payload :
           IF payload.err # "" THEN invalid(payload.err, payload.arg)
           ELSE With(avatar_model_call(ctx, method, nargs), LAMBDA result :
               IF result.exc # ""
               THEN Out(create_error_response(500, failure, NoArg, result.msg), result.ctx)
               ELSE IF partial /\ result.val = <<>>
               THEN Out(create_error_response(404, "Avatar not found", NoArg, ""), result.ctx)
               ELSE Out(create_success_response(result.val, done), result.ctx)))

\* create_avatar(user_id, event, connection)
create_avatar(user_id, ev, ctx) ==
    AvatarWrite(<<user_id>>, ev, ctx, FALSE, "create", 2,
                "Failed to create avatar", "Avatar created successfully")

\* update_avatar(user_id, avatar_id, event, connection)
update_avatar(user_id, avatar_id, ev, ctx) ==
    AvatarWrite(<<user_id, avatar_id>>, ev, ctx, TRUE, "update", 3,
                "Failed to update avatar", "Avatar updated successfully")

\* the part list_avatars, get_avatar and delete_avatar share
AvatarRead(ids, ctx, method, nargs, failure, missing, done) ==
    LET result == avatar_model_call(ctx, method, nargs)
    IN IF \E i \in 1..Len(ids) : ~_parse_positive_int(ids[i]).ok
       THEN Out(create_error_response(400,
                    IF ~_parse_positive_int(ids[1]).ok THEN "Invalid user ID format"
                    ELSE "Invalid avatar ID format", NoArg, ""), ctx)
       ELSE IF result.exc # ""
       THEN Out(create_error_response(500, failure, NoArg, result.msg), result.ctx)
       ELSE IF missing /\ result.val = <<>>
       THEN Out(create_error_response(404, "Avatar not found", NoArg, ""), result.ctx)
       ELSE Out(create_success_response(result.val, done), result.ctx)

\* list_avatars(user_id, connection)
list_avatars(user_id, ctx) ==
    AvatarRead(<<user_id>>, ctx, "list_for_user", 1,
               "Failed to retrieve avatars", FALSE, "Avatars retrieved successfully")

\* get_avatar(user_id, avatar_id, connection)
get_avatar(user_id, avatar_id, ctx) ==
    AvatarRead(<<user_id, avatar_id>>, ctx, "get", 2,
               "Failed to retrieve avatar", TRUE, "Avatar retrieved successfully")

\* delete_avatar(user_id, avatar_id, connection)
delete_avatar(user_id, avatar_id, ctx) ==
    AvatarRead(<<user_id, avatar_id>>, ctx, "delete", 2,
               "Failed to delete avatar", TRUE, "Avatar deleted successfully")

\* -------------------------------------------------------------- dispatcher

StartsWith(s, p) == Len(s) >= Len(p) /\ SubSeq(s, 1, Len(p)) = p

\* s.replace(old, ''): every occurrence of old, left to right, removed
RECURSIVE Removed(_, _)
Removed(s, old) ==
    IF Len(s) < Len(old) THEN s
    ELSE IF StartsWith(s, old) THEN Removed(SubSeq(s, Len(old) + 1, Len(s)), old)
    ELSE <<Head(s)>> \o Removed(Tail(s), old)

\* the text before the first "/" of s
RECURSIVE UpToSlash(_)
UpToSlash(s) == IF s = <<>> \/ Head(s) = "/" THEN <<>> ELSE <<Head(s)>> \o UpToSlash(Tail(s))

\* [segment for segment in route.split('/') if segment]
RECURSIVE Segments(_)
Segments(s) ==
    IF s = <<>> THEN <<>>
    ELSE IF Head(s) = "/" THEN Segments(Tail(s))
    ELSE <<UpToSlash(s)>> \o Segments(SubSeq(s, Len(UpToSlash(s)) + 1, Len(s)))

SLASH == <<"/">>
API_V1 == <<"/", "a", "p", "i", "/", "v", "1">>
STATUS == <<"/", "s", "t", "a", "t", "u", "s">>
STATUS_DB == <<"/", "s", "t", "a", "t", "u", "s", "/", "d", "b">>
USERS == <<"u", "s", "e", "r", "s">>
SEARCH == <<"s", "e", "a", "r", "c", "h">>
AVATARS == <<"a", "v", "a", "t", "a", "r", "s">>

\* what the dispatcher hands back: the envelope, the dispatch context, the
\* exception that left it ("" for none), and the connections it opened and closed
Routed(out, exc, nopen, nclose) ==
    [resp |-> out.resp, ctx |-> out.ctx, exc |-> exc, opened |-> nopen, closed |-> nclose]

\* a basic status check that probes the database, to compare against
handle_status_probing(ctx) ==
    With(execute_query(ctx, SelectHealth(ctx.tx), TRUE), LAMBDA result :
        Out(create_success_response([status |-> "healthy", service |-> "fitspace-backend",
                                     version |-> "1.0.0", database |-> "not_tested"], ""),
            result.ctx))

\* handle_status_basic()
handle_status_basic(ctx) ==
    Out(create_success_response([status |-> "healthy", service |-> "fitspace-backend",
                                 version |-> "1.0.0", database |-> "not_tested"], ""),
        ctx)

\* handle_status_with_db(connection)
handle_status_with_db(ctx) ==
    With(execute_query(ctx, SelectHealth(ctx.tx), TRUE), LAMBDA result :
        IF result.exc # ""
        THEN Out(create_error_response(503, "Database health check failed", NoArg, result.msg),
                 result.ctx)
        ELSE Out(create_success_response(
                     [status |-> "healthy", service |-> "fitspace-backend", version |-> "1.0.0",
                      database |-> "connected"], ""),
                 result.ctx))

RouteNotFound(method, route, ctx) ==
    Out(create_error_response(404, "Route not found", [method |-> method, route |-> route], ""),
        ctx)

\* handle_v1_routes(event, connection)
handle_v1_routes(ev, ctx) ==
    LET path == ev.path[1]
        method == ev.httpMethod
        stripped == Removed(path, API_V1)
        route == IF stripped = <<>> THEN SLASH ELSE stripped
        segments == Segments(route)
        n == Len(segments)
    IN IF method = "OPTIONS" THEN Out(CorsPreflight, ctx)
       ELSE IF route = SLASH \o USERS /\ method = "GET" THEN get_users(ev, ctx)
       ELSE IF route = SLASH \o USERS /\ method = "POST" THEN create_user(ev, ctx)
       ELSE IF route = SLASH \o USERS \o SLASH \o SEARCH /\ method = "GET"
       THEN search_users(ev, ctx)
       ELSE IF n >= 2 /\ segments[1] = USERS /\ segments[2] = SEARCH
       THEN RouteNotFound(method, route, ctx)
       ELSE IF n >= 3 /\ segments[1] = USERS /\ segments[3] = AVATARS
       THEN IF n = 3 /\ method = "POST" THEN create_avatar(segments[2], ev, ctx)
            ELSE IF n = 3 /\ method = "GET" THEN list_avatars(segments[2], ctx)
            ELSE IF n = 4 /\ method = "GET" THEN get_avatar(segments[2], segments[4], ctx)
            ELSE IF n = 4 /\ method = "PATCH"
            THEN update_avatar(segments[2], segments[4], ev, ctx)
            ELSE IF n = 4 /\ method = "DELETE"
            THEN delete_avatar(segments[2], segments[4], ctx)
            ELSE RouteNotFound(method, route, ctx)
       ELSE IF n >= 2 /\ segments[1] = USERS /\ method = "GET" THEN get_user(segments[2], ctx)
       ELSE IF n >= 2 /\ segments[1] = USERS /\ method = "PUT"
       THEN update_user(segments[2], ev, ctx)
       ELSE IF n >= 2 /\ segments[1] = USERS /\ method = "DELETE"
       THEN delete_user(segments[2], ctx)
       ELSE RouteNotFound(method, route, ctx)

\* a loop that allows one attempt more, to compare against
ConnectStepOneMore(tried, max_retries, ok) ==
    IF ok THEN "connected"
    ELSE IF tried <= max_retries THEN "retry"
    ELSE "raise"

\* One pass of the loop of get_database_connection_with_retry: what the attempt
\* numbered `tried` (from 0) leads to, given whether get_database_connection
\* succeeded
ConnectStep(tried, max_retries, ok) ==
    IF ok THEN "connected"
    ELSE IF tried < max_retries THEN "retry"
    ELSE "raise"

\* get_database_connection_with_retry(max_retries): reach[i] tells whether the
\* i-th attempt connects; ok = FALSE is the last attempt's exception
RECURSIVE ConnectLoop(_, _, _)
ConnectLoop(tried, max_retries, reach) ==
    LET step == ConnectStep(tried, max_retries, reach[tried + 1])
    IN IF step = "retry" THEN ConnectLoop(tried + 1, max_retries, reach)
       ELSE [ok |-> step = "connected", attempts |-> tried + 1]

get_database_connection_with_retry(max_retries, reach) == ConnectLoop(0, max_retries, reach)

\* the body of handle_request's try block; conn is "None" or "open"; reach and
\* closes are what a connection acquired here meets: the outcome of each
\* attempt, and whether its close() succeeds
Route(ev, conn, ctx, reach, closes) ==
    LET path == ev.path[1]
        method == ev.httpMethod
        own == get_database_connection_with_retry(MaxRetries, reach)
    IN IF method = "OPTIONS" THEN Routed(Out(CorsPreflight, ctx), "", 0, 0)
       ELSE IF ev.path = <<>>
       THEN Routed(Out(NoResponse, ctx), "AttributeError", 0, 0)
       ELSE IF path = STATUS /\ method = "GET" THEN Routed(handle_status_basic(ctx), "", 0, 0)
       ELSE IF path = STATUS_DB /\ method = "GET"
       THEN IF conn = "None"
            THEN IF own.ok
                 THEN With(handle_status_with_db(ctx), LAMBDA result :
                          IF closes THEN Routed(result, "", 1, 1)
                          ELSE Routed(Out(create_error_response(
                                              503, "Database connection failed", NoArg,
                                              "close failed"),
                                          result.ctx), "", 1, 0))
                 ELSE Routed(Out(create_error_response(503, "Database connection failed", NoArg,
                                                       "connection failed"), ctx), "", 0, 0)
            ELSE Routed(handle_status_with_db(ctx), "", 0, 0)
       ELSE IF StartsWith(path, API_V1)
       THEN IF conn = "None"
            THEN Routed(Out(create_error_response(
                                503, "Database connection required but not available", NoArg, ""),
                            ctx), "", 0, 0)
            ELSE Routed(handle_v1_routes(ev, ctx), "", 0, 0)
       ELSE Routed(Out(create_error_response(404, "Endpoint not found", NoArg, ""), ctx), "", 0, 0)

\* a handle_request without its except clause, to compare against
HandleRequestCatchesNothing(exc) == FALSE

\* the except clause of handle_request: whether it converts exception exc
HandleRequestCatches(exc) == TRUE

\* handle_request(event, connection)
handle_request(ev, conn, ctx, reach, closes) ==
    With(Route(ev, conn, ctx, reach, closes), LAMBDA r :
        IF r.exc # "" /\ HandleRequestCatches(r.exc)
        THEN Routed(Out(create_error_response(500, "Internal server error", NoArg, r.exc), r.ctx),
                    "", r.opened, r.closed)
        ELSE r)

\* ------------------------------------------------------------------ inputs

Methods == {"GET", "POST", "PUT", "PATCH", "DELETE", "OPTIONS"}

\* an API Gateway event: path is <<text>>, or <<>> when the event carries None
Event(method, path, query, body) ==
    [httpMethod |-> method, path |-> path, query |-> query, body |-> body]

NoQuery == <<>>

RECURSIVE Joined(_)
Joined(segs) == IF segs = <<>> THEN <<>> ELSE SLASH \o Head(segs) \o Joined(Tail(segs))

\* the path /api/v1/<segs[1]>/<segs[2]>/...
V1(segs) == API_V1 \o Joined(segs)

ONE == <<"1">>
THREE == <<"3">>
NINE == <<"9">>
ZERO == <<"0">>
ABC == <<"a", "b", "c">>
EXTRA == <<"e", "x", "t", "r", "a">>
ITEMS == <<"i", "t", "e", "m", "s">>

Paths ==
    {STATUS, STATUS_DB, Joined(<<ITEMS>>), API_V1, API_V1 \o V1(<<USERS>>),
     V1(<<USERS>>), V1(<<USERS>>) \o SLASH, V1(<<ITEMS>>),
     V1(<<USERS, SEARCH>>), V1(<<USERS, SEARCH, EXTRA>>),
     V1(<<USERS, ONE>>), V1(<<USERS, THREE>>), V1(<<USERS, NINE>>), V1(<<USERS, ZERO>>),
     V1(<<USERS, ABC>>), V1(<<USERS, ONE, EXTRA>>),
     V1(<<USERS, ONE, AVATARS>>), V1(<<USERS, ABC, AVATARS>>),
     V1(<<USERS, ONE, AVATARS, ONE>>), V1(<<USERS, ONE, AVATARS, ZERO>>),
     V1(<<USERS, ONE, AVATARS, ONE, EXTRA>>)}

JO == <<"J", "o">>
JO_EMAIL == <<"j", "o", "@", "x", ".", "c", "o", "m">>
AL == <<"A", "l">>
AL_EMAIL == <<"a", "l", "@", "x", ".", "i", "o">>
JANE_EMAIL == <<"j", "a", "n", "e", "@", "e", "x", "a", "m", "p", "l", "e", ".", "c", "o", "m">>

NonObjectBodies == {Body(k, EmptyObject) : k \in {"None", "invalid", "array", "string", "other"}}

\* create payloads every field rule accepts
ValidCreateBodies ==
    {Obj([name |-> JStr(JO), email |-> JStr(JO_EMAIL)]),
     Obj([name |-> JStr(<<" ", " ", "J", "o", " ">>),
          email |-> JStr(<<" ", "J", "o", "@", "X", ".", "C", "O", "M", " ">>),
          phone |-> JStr(<<" ", "5", "5", "5", " ">>),
          bio |-> JStr(<<" ", " ">>)]),
     Obj([name |-> JStr(AL), email |-> JStr(AL_EMAIL),
          bio |-> JStr(<<" ", "c", "o", "a", "c", "h">>)]),
     Obj([name |-> JStr(Rep("a", MaxNameLen)), email |-> JStr(JO_EMAIL),
          phone |-> JStr(Rep("5", MaxPhoneLen)), bio |-> JStr(Rep("b", MaxBioLen))])}

\* a valid payload whose email, once trimmed and lower-cased, is John Doe's
DuplicateCreateBodies ==
    {Obj([name |-> JStr(AL),
          email |-> JStr(<<" ", "J", "O", "H", "N", "@", "e", "x", "a", "m", "p", "l", "e", ".",
                           "c", "o", "m">>)])}

\* create payloads that break a rule of a user field: a name of one character,
\* no email, an email without a dot after the @, a name, a phone and a bio
\* one character too long
RuleBreakingCreateBodies ==
    {Obj([name |-> JStr(<<"J">>), email |-> JStr(JO_EMAIL)]),
     Obj([name |-> JStr(JO)]),
     Obj([name |-> JStr(JO), email |-> JStr(<<"j", "o", ".", "x", "@", "c", "o", "m">>)]),
     Obj([name |-> JStr(Rep("a", MaxNameLen + 1)), email |-> JStr(JO_EMAIL)]),
     Obj([name |-> JStr(JO), email |-> JStr(JO_EMAIL),
          phone |-> JStr(Rep("5", MaxPhoneLen + 1))]),
     Obj([name |-> JStr(JO), email |-> JStr(JO_EMAIL), bio |-> JStr(Rep("b", MaxBioLen + 1))])}

CreateBodies ==
    ValidCreateBodies \cup DuplicateCreateBodies \cup RuleBreakingCreateBodies \cup
    {Obj([name |-> JInt(5), email |-> JStr(JO_EMAIL)]),
     Obj([name |-> JStr(JO), email |-> JStr(JO_EMAIL), phone |-> JInt(555)])}
    \cup NonObjectBodies

ValidUpdateBodies ==
    {Obj([name |-> JStr(<<" ", "A", "l", " ">>)]),
     Obj([phone |-> JStr(<<>>), bio |-> JStr(<<" ", "c", "o", "a", "c", "h", " ">>)]),
     Obj([name |-> JStr(Rep("a", MaxNameLen)), phone |-> JStr(Rep("5", MaxPhoneLen))]),
     Obj([phone |-> JStr(<<" ", " ">>)])}

\* update payloads that break a rule of a user field: a name of one character,
\* a name, a phone and a bio one character too long
RuleBreakingUpdateBodies ==
    {Obj([name |-> JStr(<<"A">>)]),
     Obj([name |-> JStr(Rep("a", MaxNameLen + 1))]),
     Obj([phone |-> JStr(Rep("5", MaxPhoneLen + 1))]),
     Obj([bio |-> JStr(Rep("b", MaxBioLen + 1))])}

UpdateBodies ==
    ValidUpdateBodies \cup RuleBreakingUpdateBodies \cup
    {Obj([email |-> JStr(JANE_EMAIL)]),
     Obj([id |-> JInt(7)]),
     Obj(EmptyObject)}
    \cup NonObjectBodies

ValidAvatarBodies ==
    {Obj([age |-> JInt(28)]),
     Obj([gender |-> JStr(<<" ", "M", "a", "l", "e", " ">>), display_name |-> JStr(<<>>)])}

\* avatar payloads that break a rule of an avatar field: an age of 120.9, of
\* 200 and of 'abc', a weight that is not a number and one of 10 kg, a gender
\* outside the enum, a display name one character too long, an unknown key
RuleBreakingAvatarBodies ==
    {Obj([age |-> JFloat(1209)]),
     Obj([age |-> JInt(200)]),
     Obj([age |-> JStr(ABC)]),
     Obj([weight_kg |-> JStr(<<"n", "a", "n">>)]),
     Obj([weight_kg |-> JInt(10)]),
     Obj([gender |-> JStr(<<"r", "o", "b", "o", "t">>)]),
     Obj([display_name |-> JStr(Rep("n", MaxDisplayNameLen + 1))]),
     Obj([bogus |-> JInt(1)])}

\* avatar payloads whose every field is blank: nothing is left after normalization
BlankAvatarBodies ==
    {Obj([display_name |-> JStr(<<" ">>), age |-> JNull]),
     Obj([notes |-> JStr(<<>>)])}

AvatarBodies ==
    ValidAvatarBodies \cup RuleBreakingAvatarBodies \cup BlankAvatarBodies
    \cup {Obj(EmptyObject)}
    \cup NonObjectBodies

\* listings asked for with a positive limit and an offset that is not negative
WellFormedListQueries ==
    {[limit |-> <<"1">>], [limit |-> <<"1", "0", "0", "0">>],
     [limit |-> <<"1">>, offset |-> <<"1">>],
     [search |-> <<"d", "o", "e">>, limit |-> <<"1">>],
     [search |-> <<"e", "x", "a", "m", "p", "l", "e">>, limit |-> <<"1">>],
     [search |-> <<"E", "X", "A", "M", "P", "L", "E">>]}

ListQueries ==
    WellFormedListQueries \cup
    {[limit |-> <<"0">>], [limit |-> <<"-", "1">>], [limit |-> ABC], [offset |-> <<"-", "1">>]}

\* searches for a term of two characters or more
WellFormedSearchQueries ==
    {[q |-> <<"d", "o", "e">>],
     [q |-> <<"e", "x", "a", "m", "p", "l", "e">>, limit |-> <<"1">>],
     [q |-> <<"j", "o">>, offset |-> <<"1">>]}

SearchQueries ==
    WellFormedSearchQueries \cup {[q |-> <<" ", "d", " ">>], [q |-> <<" ", " ">>]}

Events ==
    {Event(m, <<p>>, NoQuery, NoBody) : m \in Methods, p \in Paths}
    \cup {Event("GET", <<>>, NoQuery, NoBody)}
    \cup {Event("POST", <<V1(<<USERS>>)>>, NoQuery, b) : b \in CreateBodies}
    \cup {Event("PUT", <<V1(<<USERS, ONE>>)>>, NoQuery, b) : b \in UpdateBodies}
    \cup {Event("POST", <<V1(<<USERS, ONE, AVATARS>>)>>, NoQuery, b) : b \in AvatarBodies}
    \cup {Event("PATCH", <<V1(<<USERS, ONE, AVATARS, ONE>>)>>, NoQuery, b) : b \in AvatarBodies}
    \cup {Event("GET", <<V1(<<USERS>>)>>, q, NoBody) : q \in ListQueries}
    \cup {Event("GET", <<V1(<<USERS, SEARCH>>)>>, q, NoBody) : q \in SearchQueries}

\* the request test_lambda_handler_error sends to the raising dispatcher
DoubleEvents == {Event("GET", <<V1(<< <<"t", "e", "s", "t">> >>)>>, NoQuery, NoBody)}

\* the driver faults a dispatch can meet: its n-th data statement is cancelled
\* by the statement timeout, or fails otherwise
\* what the driver does: nothing special (the behaviour of the repository's test
\* doubles), a failure at the n-th data statement, or, with kind "datetime",
\* psycopg2's own adaptation of the TIMESTAMP WITH TIME ZONE columns: created_at
\* and updated_at arrive as datetime objects instead of text
Faults ==
    {NoFault} \cup {[at |-> n, kind |-> k] : n \in 1..2, k \in {"timeout", "error", "set"}}
              \cup {[at |-> 1, kind |-> "datetime"]}

Ties == {"asc", "desc"}

\* ------------------------------------------------------------- entry points

NoEvent == Event("", <<>>, NoQuery, NoBody)

\* no library call in progress, and none finished
NoCall == [op |-> ""]
NoResult == [exc |-> "", msg |-> "", val |-> <<>>]

Init ==
    /\ pc = "idle"
    /\ entry = ""
    /\ event = NoEvent
    /\ connection = "None"
    /\ attempt = 0
    /\ opened = 0
    /\ closed = 0
    /\ response = NoResponse
    /\ raised = FALSE
    /\ db \in {EmptyStore, SampleStore, AvatarStore}
    /\ clock = 1
    /\ log = <<>>
    /\ fault = NoFault
    /\ dispatcher = "real"
    /\ lastCreated = <<>>
    /\ call = NoCall
    /\ outcome = NoResult

\* an invocation begins: the entry point, its event and its dispatcher
Begins(how, ev, d) ==
    /\ entry' = how
    /\ event' = ev
    /\ dispatcher' = d
    /\ attempt' = 0

\* only the store's committed rows count as a write; the id sequence is not data
Wrote(old, new) == old.users # new.users \/ old.avatars # new.avatars

\* what the dispatch r leaves in the store, on the store's clock and in the history
Effects(r) ==
    /\ db' = r.ctx.db
    /\ clock' = IF Wrote(db, r.ctx.db) THEN clock + 1 ELSE clock
    /\ clock' <= MaxClock
    /\ log' = r.ctx.log
    /\ lastCreated' =
           IF r.resp.statusCode = 200 /\ r.resp.body.message = "User created successfully"
           THEN <<r.resp.body.data>>
           ELSE IF Wrote(db, r.ctx.db) THEN <<>>
           ELSE lastCreated

\* the fault f is one the dispatch r met
Met(f, r) == f.at <= Len(DataStatements(r.ctx.log))

\* lambda_handler is invoked with event ev
Invoke(ev, d) ==
    /\ Begins("lambda", ev, d)
    /\ pc' = "try"
    /\ connection' = "None"
    /\ opened' = 0
    /\ closed' = 0
    /\ response' = NoResponse
    /\ raised' = FALSE
    /\ fault' = NoFault
    /\ log' = <<>>
    /\ UNCHANGED <<db, clock, lastCreated>>
    /\ UNCHANGED <<call, outcome>>

\* lambda_handler: `if event.get('httpMethod') == 'OPTIONS'`
Preflight ==
    /\ pc = "try"
    /\ event.httpMethod = "OPTIONS"
    /\ response' = CorsPreflight
    /\ pc' = "finally"
    /\ UNCHANGED <<entry, event, connection, attempt, opened, closed, raised, db, clock, log,
                   fault, dispatcher, lastCreated>>
    /\ UNCHANGED <<call, outcome>>

\* what calling the dispatcher from lambda_handler yields: the test double
\* raises, the real one is handle_request
Dispatched(d, ev, conn, ctx) ==
    IF d = "double" THEN Routed(Out(NoResponse, ctx), "Exception", 0, 0)
    ELSE handle_request(ev, conn, ctx, <<TRUE, TRUE>>, TRUE)

\* a lambda_handler without its except clause, to compare against
LambdaCatchesNothing(exc) == FALSE

\* the except clause of lambda_handler: whether it converts exception exc
LambdaCatches(exc) == TRUE

\* lambda_handler's answer to a call that ended with r
Answer(r) ==
    IF r.exc = "" THEN r.resp
    ELSE create_error_response(500, "Internal server error", NoArg, r.exc)

\* lambda_handler: `if path == '/status'`: the dispatcher is called without a connection
BasicStatus ==
    /\ pc = "try"
    /\ event.httpMethod # "OPTIONS"
    /\ event.path = <<STATUS>>
    /\ \E r \in {Dispatched(dispatcher, event, "None", Ctx(db, clock, NoFault, "asc"))} :
          /\ response' = IF r.exc = "" \/ LambdaCatches(r.exc) THEN Answer(r) ELSE NoResponse
          /\ raised' = (r.exc # "" /\ ~LambdaCatches(r.exc))
          /\ opened' = opened + r.opened
          /\ closed' = closed + r.closed
          /\ Effects(r)
    /\ pc' = "finally"
    /\ UNCHANGED <<entry, event, connection, attempt, fault, dispatcher>>
    /\ UNCHANGED <<call, outcome>>

\* lambda_handler: one attempt of get_database_connection_with_retry(max_retries=1)
Connect(ok) ==
    /\ pc = "try"
    /\ event.httpMethod # "OPTIONS"
    /\ event.path # <<STATUS>>
    /\ \E step \in {ConnectStep(attempt, MaxRetries, ok)} :
          /\ attempt' = attempt + 1
          /\ connection' = IF step = "connected" THEN "open" ELSE connection
          /\ opened' = IF step = "connected" THEN opened + 1 ELSE opened
          /\ pc' = CASE step = "connected" -> "dispatch"
                     [] step = "retry" -> "try"
                     [] OTHER -> "finally"
          /\ response' = IF step # "raise" THEN response
                         ELSE IF LambdaCatches("OperationalError")
                         THEN create_error_response(500, "Internal server error", NoArg,
                                                    "OperationalError")
                         ELSE NoResponse
          /\ raised' = (step = "raise" /\ ~LambdaCatches("OperationalError"))
    /\ UNCHANGED <<entry, event, closed, db, clock, log, fault, dispatcher, lastCreated>>
    /\ UNCHANGED <<call, outcome>>

\* lambda_handler: `response = api_routes.handle_request(event, connection)`
Dispatch(f, tie) ==
    /\ pc = "dispatch"
    /\ \E r \in {Dispatched(dispatcher, event, connection, Ctx(db, clock, f, tie))} :
          /\ Met(f, r)
          /\ fault' = f
          /\ response' = IF r.exc = "" \/ LambdaCatches(r.exc) THEN Answer(r) ELSE NoResponse
          /\ raised' = (r.exc # "" /\ ~LambdaCatches(r.exc))
          /\ opened' = opened + r.opened
          /\ closed' = closed + r.closed
          /\ Effects(r)
    /\ pc' = "finally"
    /\ UNCHANGED <<entry, event, connection, attempt, dispatcher>>
    /\ UNCHANGED <<call, outcome>>

\* a lambda_handler without its finally clause, to compare against
FinallyWithoutClose ==
    /\ pc = "finally"
    /\ pc' = "returned"
    /\ UNCHANGED <<entry, event, connection, attempt, opened, closed, response, raised, db,
                   clock, log, fault, dispatcher, lastCreated>>
    /\ UNCHANGED <<call, outcome>>

\* lambda_handler's finally: `if connection: connection.close()`; an error of
\* close() is logged and dropped
Finally ==
    /\ pc = "finally"
    /\ connection' = IF connection = "open" THEN "closed" ELSE connection
    /\ closed' = IF connection = "open" THEN closed + 1 ELSE closed
    /\ pc' = "returned"
    /\ UNCHANGED <<entry, event, attempt, opened, response, raised, db, clock, log, fault,
                   dispatcher, lastCreated>>
    /\ UNCHANGED <<call, outcome>>

\* handle_request acquires a connection of its own only here
OwnConnection(ev, conn) ==
    conn = "None" /\ ev.httpMethod = "GET" /\ ev.path = <<STATUS_DB>>

\* handle_request(ev, conn) called on its own, as the dev server and the route
\* tests do; reach and closes vary only where a connection is acquired
Direct(ev, conn, f, tie, reach, closes) ==
    /\ OwnConnection(ev, conn) \/ (reach = <<TRUE, TRUE>> /\ closes)
    /\ Begins("direct", ev, "real")
    /\ \E r \in {handle_request(ev, conn, Ctx(db, clock, f, tie), reach, closes)} :
          /\ Met(f, r)
          /\ fault' = f
          /\ response' = IF r.exc = "" THEN r.resp ELSE NoResponse
          /\ raised' = (r.exc # "")
          /\ opened' = r.opened
          /\ closed' = r.closed
          /\ Effects(r)
    /\ connection' = conn
    /\ pc' = "returned"
    /\ UNCHANGED <<call, outcome>>

\* the invocation is over: its frame is gone, the store stays
Returns ==
    /\ pc = "returned"
    /\ pc' = "idle"
    /\ entry' = ""
    /\ event' = NoEvent
    /\ connection' = "None"
    /\ attempt' = 0
    /\ opened' = 0
    /\ closed' = 0
    /\ response' = NoResponse
    /\ raised' = FALSE
    /\ log' = <<>>
    /\ fault' = NoFault
    /\ dispatcher' = "real"
    /\ UNCHANGED <<db, clock, lastCreated>>
    /\ UNCHANGED <<call, outcome>>

\* ------------------------------------------------- library calls on their own

\* what the model tests and scripts hand to Avatar.create: the payload of
\* test_create_executes_expected_insert, one with a measurement, and ones
\* without user_id, without display_name, with an empty display_name and for a
\* user that is not stored
AvatarKwargs ==
    {[user_id |-> 1, display_name |-> JStr(<<"N", "e", "w">>), age |-> JInt(30)],
     [user_id |-> 2, display_name |-> JStr(CUT), weight_kg |-> JInt(68)],
     [display_name |-> JStr(CUT)],
     [user_id |-> 1, age |-> JInt(30)],
     [user_id |-> 1, display_name |-> JStr(<<>>)],
     [user_id |-> 9, display_name |-> JStr(CUT)]}

\* what they hand to Avatar.update_partial: nothing, the fields of
\* test_update_partial_executes_expected_update, a display name cleared, a
\* measurement that does not fit NUMERIC(5,2), and a column that does not exist
AvatarFields ==
    {EmptyObject,
     [weight_kg |-> JInt(70), notes |-> JStr(<<"u", "p", "d", "a", "t", "e", "d">>)],
     [display_name |-> JNull],
     [hips_cm |-> JInt(1000)],
     [bogus |-> JInt(1)]}

AvatarIds == {1, 2, 9}

\* Avatar(connection).<op>(args) is called on an open connection and ends with r
Called(op, args, f, r) ==
    /\ pc = "idle"
    /\ Met(f, r)
    /\ r.ctx.db.nextAvatarId <= MaxAvatarId + 1
    /\ pc' = "called"
    /\ entry' = "model"
    /\ call' = [op |-> op, args |-> args]
    /\ outcome' = [exc |-> r.exc, msg |-> r.msg, val |-> r.val]
    /\ raised' = (r.exc # "")
    /\ connection' = "open"
    /\ fault' = f
    /\ db' = r.ctx.db
    /\ clock' = IF Wrote(db, r.ctx.db) THEN clock + 1 ELSE clock
    /\ clock' <= MaxClock
    /\ log' = r.ctx.log
    /\ lastCreated' = IF Wrote(db, r.ctx.db) THEN <<>> ELSE lastCreated
    /\ UNCHANGED <<event, attempt, opened, closed, response, dispatcher>>

AvatarCreate(kwargs, f) ==
    Called("create", <<kwargs>>, f, Avatar_create(Ctx(db, clock, f, "desc"), kwargs))

AvatarGet(avatar_id, f) ==
    Called("get", <<avatar_id>>, f, Avatar_get(Ctx(db, clock, f, "desc"), avatar_id))

AvatarUpdatePartial(avatar_id, fields, f) ==
    Called("update_partial", <<avatar_id, fields>>, f,
           Avatar_update_partial(Ctx(db, clock, f, "desc"), avatar_id, fields))

AvatarDelete(avatar_id, f) ==
    Called("delete", <<avatar_id>>, f, Avatar_delete(Ctx(db, clock, f, "desc"), avatar_id))

AvatarListByUser(user_id, limit, offset, f) ==
    Called("list_by_user", <<user_id, limit, offset>>, f,
           Avatar_list_by_user(Ctx(db, clock, f, "desc"), user_id, limit, offset))

\* the largest max_retries get_database_connection_with_retry is called with
MaxTriedRetries == 3

\* get_database_connection_with_retry(max_retries = n) is entered:
\* `last_exception = None` (0 here; k stands for the exception of attempt k)
Acquire(n) ==
    /\ pc = "idle"
    /\ pc' = "connecting"
    /\ entry' = "helper"
    /\ call' = [op |-> "get_database_connection_with_retry", max_retries |-> n,
                last_exception |-> 0]
    /\ attempt' = 0
    /\ UNCHANGED <<event, connection, opened, closed, response, raised, db, clock, log, fault,
                   dispatcher, lastCreated, outcome>>

\* one pass of its loop: get_database_connection returns a connection or raises
Attempt(ok) ==
    /\ pc = "connecting"
    /\ \E step \in {ConnectStep(attempt, call.max_retries, ok)} :
          /\ attempt' = attempt + 1
          /\ call' = IF ok THEN call ELSE [call EXCEPT !.last_exception = attempt + 1]
          /\ pc' = IF step = "retry" THEN "connecting" ELSE "called"
          /\ connection' = IF step = "connected" THEN "open" ELSE connection
          /\ opened' = IF step = "connected" THEN opened + 1 ELSE opened
          /\ raised' = (step = "raise")
          /\ outcome' = CASE step = "connected" -> [exc |-> "", msg |-> "", val |-> <<attempt + 1>>]
                         [] step = "raise" -> [exc |-> "Exception", msg |-> "", val |-> <<attempt + 1>>]
                         [] OTHER -> outcome
    /\ UNCHANGED <<entry, event, closed, response, db, clock, log, fault, dispatcher,
                   lastCreated>>

\* the call is over
Done ==
    /\ pc \in {"called", "executed"}
    /\ pc' = "idle"
    /\ entry' = ""
    /\ connection' = "None"
    /\ attempt' = 0
    /\ opened' = 0
    /\ raised' = FALSE
    /\ log' = <<>>
    /\ fault' = NoFault
    /\ call' = NoCall
    /\ outcome' = NoResult
    /\ UNCHANGED <<event, closed, response, db, clock, dispatcher, lastCreated>>

ModelNext ==
    \/ \E kwargs \in AvatarKwargs, f \in Faults : AvatarCreate(kwargs, f)
    \/ \E id \in AvatarIds, f \in Faults : AvatarGet(id, f)
    \/ \E id \in AvatarIds, fields \in AvatarFields, f \in Faults :
          AvatarUpdatePartial(id, fields, f)
    \/ \E id \in AvatarIds, f \in Faults : AvatarDelete(id, f)
    \/ \E id \in {1, 9}, limit \in {<<>>, <<1>>}, offset \in {0, 1}, f \in Faults :
          AvatarListByUser(id, limit, offset, f)
    \/ \E n \in 0..MaxTriedRetries : Acquire(n)
    \/ \E ok \in BOOLEAN : Attempt(ok)
    \/ Done
    \/ /\ pc = "idle"
       /\ \E ev \in Events, f \in Faults, tie \in Ties :
              Direct(ev, "open", f, tie, <<TRUE, TRUE>>, TRUE)
    \/ Returns

\* The model methods, the connection helper and handle_request, each called on
\* its own with an open connection.
ModelSpec == Init /\ [][ModelNext]_vars

\* user ids handed out while execute_query is run on its own (the sequence
\* advances on rejected INSERTs too)
MaxUserId == 4

\* statements handed to execute_query on its own: a read, an INSERT the store
\* accepts or rejects (the e-mail of a stored row), a DELETE
Queries(tx, now) ==
    {SelectHealth(tx),
     InsertUser(tx, now, JO, JO_EMAIL, <<>>, <<>>),
     InsertUser(tx, now, JO, JANE_EMAIL, <<>>, <<>>),
     DeleteUser(tx, 1)}

\* execute_query(connection, query, params, fetch) on the connection the helper
\* returned: the statement is sent once and its result or its exception goes
\* to the caller.  call keeps what was asked and whether the connection is left
\* with uncommitted changes; outcome.val is <<rowcount>>.
Execute(q, fetch, f) ==
    /\ pc = "called"
    /\ entry = "helper"
    /\ connection = "open"
    /\ \E r \in {execute_query(Ctx(db, clock, f, "desc"), q, fetch)} :
          /\ Met(f, r)
          /\ r.ctx.db.nextId <= MaxUserId + 1
          /\ log' = r.ctx.log
          /\ raised' = (r.exc # "")
          /\ outcome' = [exc |-> r.exc, msg |-> r.msg,
                         val |-> IF r.exc = "" THEN <<r.val[2]>> ELSE <<>>]
          /\ call' = [op |-> "execute_query", query |-> q.op, fetch |-> fetch,
                      rejected |-> q.err, pending |-> r.ctx.tx # r.ctx.db]
          /\ db' = r.ctx.db
          /\ clock' = IF Wrote(db, r.ctx.db) THEN clock + 1 ELSE clock
          /\ clock' <= MaxClock
    /\ fault' = f
    /\ pc' = "executed"
    /\ UNCHANGED <<entry, event, connection, attempt, opened, closed, response, dispatcher,
                   lastCreated>>

\* -------------------------------------------------- get_database_connection

\* os.environ.get(key, default) / secret.get(key, default)
Get(f, key, default) == IF key \in DOMAIN f THEN f[key] ELSE default

\* ['DB_HOST', 'DB_NAME', 'DB_USERNAME', 'DB_PASSWORD']
DirectKeys == {"DB_HOST", "DB_NAME", "DB_USERNAME", "DB_PASSWORD"}

\* what get_database_connection leaves: exc the exception raised ("" for none),
\* calls the outside calls it made in order, kwargs what psycopg2.connect was
\* given (<<>>: not called), connection what it returned
Connected(calls, kwargs) ==
    [exc |-> "", msg |-> "", calls |-> Append(calls, "psycopg2.connect"), kwargs |-> <<kwargs>>,
     connection |-> <<[host |-> kwargs.host, autocommit |-> FALSE]>>]

NotConnected(exc, msg, calls, kwargs) ==
    [exc |-> exc, msg |-> msg, calls |-> calls, kwargs |-> kwargs, connection |-> <<>>]

\* `except KeyError`
MissingVariables(calls) ==
    NotConnected("Exception", "Missing required environment variables", calls, <<>>)

\* psycopg2.connect(**kwargs) and `connection.autocommit = False`;
\* `except psycopg2.OperationalError` when the server cannot be reached
Connecting(calls, kwargs, connects) ==
    IF connects THEN Connected(calls, kwargs)
    ELSE NotConnected("Exception", "Database connection failed (timeout or connectivity issue)",
                      Append(calls, "psycopg2.connect"), <<kwargs>>)

\* a priority that puts the proxy before the secret's host, to compare against
EndpointProxyFirst(environ, secret) ==
    IF Get(environ, "DB_CLUSTER_ENDPOINT", "") # "" THEN <<environ["DB_CLUSTER_ENDPOINT"]>>
    ELSE IF "DB_PROXY_ENDPOINT" \in DOMAIN environ THEN <<environ["DB_PROXY_ENDPOINT"]>>
    ELSE IF Get(secret, "host", "") # "" THEN <<secret["host"]>>
    ELSE <<>>

\* `if os.environ.get('DB_CLUSTER_ENDPOINT') ... elif secret.get('host') ... else
\* os.environ['DB_PROXY_ENDPOINT']`: <<endpoint>>, or <<>> for the KeyError
Endpoint(environ, secret) ==
    IF Get(environ, "DB_CLUSTER_ENDPOINT", "") # "" THEN <<environ["DB_CLUSTER_ENDPOINT"]>>
    ELSE IF Get(secret, "host", "") # "" THEN <<secret["host"]>>
    ELSE IF "DB_PROXY_ENDPOINT" \in DOMAIN environ THEN <<environ["DB_PROXY_ENDPOINT"]>>
    ELSE <<>>

\* get_database_connection(timeout): environ is os.environ without DB_PORT,
\* port is DB_PORT (<<>>: not set), secret the object the secret store holds,
\* fetches whether the store answers, connects whether the server is reached
get_database_connection(environ, port, secret, fetches, connects) ==
    IF DirectKeys \subseteq DOMAIN environ
    THEN LET db_port == IF port = <<>> THEN [ok |-> TRUE, v |-> 5432] ELSE int_text(port[1])
         IN IF ~db_port.ok THEN NotConnected("ValueError", "", <<>>, <<>>)
            ELSE Connecting(<<>>, [host |-> environ["DB_HOST"], database |-> environ["DB_NAME"],
                                   user |-> environ["DB_USERNAME"],
                                   password |-> environ["DB_PASSWORD"], port |-> db_port.v],
                            connects)
    ELSE IF "DB_SECRET_ARN" \notin DOMAIN environ THEN MissingVariables(<<>>)
    ELSE IF ~fetches THEN NotConnected("ClientError", "", <<"get_secret_value">>, <<>>)
    ELSE LET endpoint == Endpoint(environ, secret)
         IN IF endpoint = <<>> \/ {"username", "password"} \ DOMAIN secret # {}
            THEN MissingVariables(<<"get_secret_value">>)
            ELSE Connecting(<<"get_secret_value">>,
                            [host |-> endpoint[1],
                             database |-> Get(secret, "dbname", Get(secret, "engine", "fitspace")),
                             user |-> secret["username"], password |-> secret["password"],
                             port |-> Get(secret, "port", 5432)],
                            connects)

FullEnviron ==
    [DB_HOST |-> "env-host", DB_NAME |-> "fitspace", DB_USERNAME |-> "app", DB_PASSWORD |-> "pw",
     DB_SECRET_ARN |-> "arn:secret", DB_CLUSTER_ENDPOINT |-> "cluster.example.com",
     DB_PROXY_ENDPOINT |-> "proxy.example.com"]

\* every choice of variables that are set, one of them possibly set to ''
Environs ==
    {[k \in S |-> IF k \in E THEN "" ELSE FullEnviron[k]] :
        S \in SUBSET DOMAIN FullEnviron,
        E \in {{}, {"DB_CLUSTER_ENDPOINT"}, {"DB_HOST"}, {"DB_PROXY_ENDPOINT"}}}

Ports == {<<>>, <<<<"5", "4", "3", "3">>>>, <<<<"x">>>>}

Secrets ==
    {[username |-> "user", password |-> "pass", dbname |-> "db", port |-> 5432,
      host |-> "secret-host"],
     [username |-> "user", password |-> "pass", dbname |-> "db", port |-> 5432],
     [username |-> "user", password |-> "pass", dbname |-> "db", port |-> 5432, host |-> ""],
     [username |-> "user", password |-> "pass", engine |-> "postgres"],
     [password |-> "pass", host |-> "secret-host"]}

\* get_database_connection() called in an environment
GetConnection(environ, port, secret, fetches, connects) ==
    /\ pc = "idle"
    /\ \E r \in {get_database_connection(environ, port, secret, fetches, connects)} :
          /\ call' = [op |-> "get_database_connection", environ |-> environ, port |-> port,
                      secret |-> secret, kwargs |-> r.kwargs]
          /\ outcome' = [exc |-> r.exc, msg |-> r.msg, val |-> r.connection]
          /\ log' = r.calls
          /\ raised' = (r.exc # "")
          /\ connection' = IF r.exc = "" THEN "open" ELSE "None"
          /\ opened' = IF r.exc = "" THEN 1 ELSE 0
    /\ pc' = "called"
    /\ entry' = "connector"
    /\ UNCHANGED <<event, attempt, closed, response, db, clock, fault, dispatcher, lastCreated>>

ConnectorNext ==
    \/ \E environ \in Environs, port \in Ports, secret \in Secrets, fetches \in BOOLEAN,
          connects \in BOOLEAN : GetConnection(environ, port, secret, fetches, connects)
    \/ Done

\* get_database_connection called on its own in every environment
ConnectorSpec == Init /\ [][ConnectorNext]_vars

\* ------------------------------------------------- User model, called directly

\* a User method called on an open connection
UserCalled(op, args, f, r) ==
    /\ r.ctx.db.nextId <= MaxUserId + 1
    /\ Called(op, args, f, r)

UserGetAll(limit, offset, search, f, tie) ==
    UserCalled("User.get_all", <<limit, offset, search>>, f,
               User_get_all(Ctx(db, clock, f, tie), limit, offset, search))

UserGetById(user_id, f) ==
    UserCalled("User.get_by_id", <<user_id>>, f, User_get_by_id(Ctx(db, clock, f, "desc"), user_id))

UserGetByEmail(email, f) ==
    UserCalled("User.get_by_email", <<email>>, f,
               User_get_by_email(Ctx(db, clock, f, "desc"), email))

UserCreate(name, email, f) ==
    UserCalled("User.create", <<name, email>>, f,
               User_create(Ctx(db, clock, f, "desc"), name, email, <<>>, <<>>))

UserUpdate(user_id, updates, f) ==
    UserCalled("User.update", <<user_id, updates>>, f,
               User_update(Ctx(db, clock, f, "desc"), user_id, updates))

UserDelete(user_id, f) ==
    UserCalled("User.delete", <<user_id>>, f, User_delete(Ctx(db, clock, f, "desc"), user_id))

UserCount(search, f) ==
    UserCalled("User.count", <<search>>, f, User_count(Ctx(db, clock, f, "desc"), search))

UserIds == {1, 9}
UserEmails == {JO_EMAIL, JANE_EMAIL}
UserUpdates == {[name |-> AL], [email |-> JANE_EMAIL], [id |-> 7]}

UserModelNext ==
    \/ \E offset \in {0, 1}, search \in {<<>>, <<JO>>}, f \in Faults, tie \in Ties :
          UserGetAll(1, offset, search, f, tie)
    \/ \E id \in UserIds, f \in Faults : UserGetById(id, f)
    \/ \E email \in UserEmails, f \in Faults : UserGetByEmail(email, f)
    \/ \E email \in UserEmails, f \in Faults : UserCreate(JO, email, f)
    \/ \E id \in UserIds, updates \in UserUpdates, f \in Faults : UserUpdate(id, updates, f)
    \/ \E id \in UserIds, f \in Faults : UserDelete(id, f)
    \/ \E search \in {<<>>, <<JO>>}, f \in Faults : UserCount(search, f)
    \/ \E kwargs \in AvatarKwargs, f \in Faults : AvatarCreate(kwargs, f)
    \/ \E id \in AvatarIds, f \in Faults : AvatarGet(id, f)
    \/ \E id \in AvatarIds, fields \in AvatarFields, f \in Faults :
          AvatarUpdatePartial(id, fields, f)
    \/ \E id \in AvatarIds, f \in Faults : AvatarDelete(id, f)
    \/ Done

\* the methods of the User and Avatar models, called one at a time on an open
\* connection
UserModelSpec == Init /\ [][UserModelNext]_vars

\* ------------------------------------------ two requests on two connections

\* A request whose body and id pass the handler's validation: create_user
\* (name, email), update_user (id, updates) or delete_user (id).
CreateRequest(name, email) == [op |-> "create", name |-> name, email |-> email]
UpdateRequest(id, updates) == [op |-> "update", id |-> id, updates |-> updates]
DeleteRequest(id) == [op |-> "delete", id |-> id]

\* One connection serving one request: at is how far the model method got
\* ("start", "checked": its SELECT found what the write needs, "written": the
\* write statement ran and is not committed, "answered"), removed and rows the
\* uncommitted change (ids no longer there, rows put in their place), returned
\* what the write statement handed back, resp the handler's answer.
Session(req) ==
    [req |-> req, at |-> "start", removed |-> {}, rows |-> {}, returned |-> <<>>,
     rowcount |-> 0, resp |-> NoResponse, log |-> <<>>]

Sessions == call.sessions

Answering(c, resp, stmts) ==
    [Sessions[c] EXCEPT !.at = "answered", !.resp = resp, !.log = @ \o stmts,
                        !.removed = {}, !.rows = {}]

\* the existence check of User.create / update / delete: the SELECT sees the
\* committed rows
CheckQuery(req) ==
    IF req.op = "create" THEN SelectUserByEmail(db, req.email) ELSE SelectUserById(db, req.id)

\* the write statement of the method, on the committed rows
WriteQuery(req) ==
    CASE req.op = "create" -> InsertUser(db, clock, req.name, req.email, <<>>, <<>>)
      [] req.op = "update" -> UpdateUser(db, clock, req.id, req.updates)
      [] OTHER -> DeleteUser(db, req.id)

\* `if existing: raise ValueError` of create, `if not existing: return` of
\* update and delete
CheckRefuses(req, q) == IF req.op = "create" THEN q.rows # <<>> ELSE q.rows = <<>>

\* what the handler answers when the check refuses
RefusedResponse(req) ==
    IF req.op = "create"
    THEN create_error_response(400, "User with email already exists", NoArg, "")
    ELSE create_error_response(404, "User not found", NoArg, "")

FailureMessage(req) ==
    CASE req.op = "create" -> "Failed to create user"
      [] req.op = "update" -> "Failed to update user"
      [] OTHER -> "Failed to delete user"

\* the store makes a write wait while another connection holds an uncommitted
\* change of the same row or of the same unique email
Waits(c) ==
    LET mine == Sessions[c].req
        other == Sessions[3 - c]
        held == {r.email : r \in other.rows}
                    \cup {r.email : r \in {u \in db.users : u.id \in other.removed}}
    IN \/ mine.op \in {"update", "delete"} /\ mine.id \in other.removed
       \/ mine.op = "create" /\ mine.email \in held
       \/ mine.op = "update" /\ "email" \in DOMAIN mine.updates /\ mine.updates["email"] \in held

\* two requests arrive, each on a connection of its own
Race(a, b) ==
    /\ pc = "idle"
    /\ pc' = "racing"
    /\ entry' = "concurrent"
    /\ connection' = "open"
    /\ call' = [op |-> "race", sessions |-> <<Session(a), Session(b)>>]
    /\ outcome' = [exc |-> "", msg |-> "", val |-> <<db>>]
    /\ UNCHANGED <<event, attempt, opened, closed, response, raised, db, clock, log, fault,
                   dispatcher, lastCreated>>

\* connection c runs the SELECT its method starts with
Check(c) ==
    /\ pc = "racing"
    /\ Sessions[c].at = "start"
    /\ LET req == Sessions[c].req
           q == CheckQuery(req)
       IN call' = [call EXCEPT !.sessions[c] =
              IF CheckRefuses(req, q)
              THEN Answering(c, RefusedResponse(req),
                             IF req.op = "create" THEN <<q.op, "ROLLBACK">> ELSE <<q.op>>)
              ELSE [Sessions[c] EXCEPT !.at = "checked", !.log = Append(@, q.op)]]
    /\ UNCHANGED <<pc, entry, event, connection, attempt, opened, closed, response, raised, db,
                   clock, log, fault, dispatcher, lastCreated, outcome>>

\* connection c runs its INSERT, UPDATE or DELETE; a statement the store
\* rejects is rolled back by execute_query and by the method, and answered 500
Write(c) ==
    /\ pc = "racing"
    /\ Sessions[c].at = "checked"
    /\ ~Waits(c)
    /\ LET req == Sessions[c].req
           q == WriteQuery(req)
       IN /\ q.tx.nextId <= MaxUserId + 1
          /\ db' = [db EXCEPT !.nextId = q.tx.nextId]
          /\ call' = [call EXCEPT !.sessions[c] =
                 IF q.err
                 THEN Answering(c, create_error_response(500, FailureMessage(req), NoArg,
                                                         QueryError("error")),
                                <<q.op, "ROLLBACK", "ROLLBACK">>)
                 ELSE [Sessions[c] EXCEPT
                          !.at = "written",
                          !.removed = {r.id : r \in db.users \ q.tx.users},
                          !.rows = q.tx.users \ db.users,
                          !.returned = q.rows,
                          !.rowcount = q.rowcount,
                          !.log = Append(@, q.op)]]
    /\ UNCHANGED <<pc, entry, event, connection, attempt, opened, closed, response, raised,
                   clock, log, fault, dispatcher, lastCreated, outcome>>

\* what the method and the handler make of a committed write
CommittedResponse(s) ==
    CASE s.req.op = "create" ->
             create_success_response(s.returned[1], "User created successfully")
      [] s.req.op = "update" ->
             IF s.returned = <<>>
             THEN create_error_response(500, "Failed to update user", NoArg,
                                        "list index out of range")
             ELSE create_success_response(s.returned[1], "User updated successfully")
      [] OTHER ->
             IF s.rowcount > 0
             THEN create_success_response([id |-> s.req.id], "User deleted successfully")
             ELSE create_error_response(404, "User not found", NoArg, "")

\* connection c commits and its handler answers
Commit(c) ==
    /\ pc = "racing"
    /\ Sessions[c].at = "written"
    /\ LET s == Sessions[c]
       IN /\ db' = [db EXCEPT
                       !.users = {r \in @ : r.id \notin s.removed} \cup s.rows,
                       !.avatars = IF s.req.op = "delete"
                                   THEN {a \in @ : a.user_id \notin s.removed} ELSE @]
          /\ call' = [call EXCEPT !.sessions[c] =
                 Answering(c, CommittedResponse(s),
                           CASE s.req.op = "delete" -> <<"COMMIT", "COMMIT">>
                             [] s.req.op = "update" /\ s.returned = <<>> -> <<"COMMIT", "ROLLBACK">>
                             [] OTHER -> <<"COMMIT">>)]
    /\ UNCHANGED <<pc, entry, event, connection, attempt, opened, closed, response, raised,
                   clock, log, fault, dispatcher, lastCreated, outcome>>

RaceIds == {1, 9}
RaceUpdates == {[name |-> AL], [email |-> JO_EMAIL]}
Requests ==
    {CreateRequest(JO, e) : e \in {JO_EMAIL, JANE_EMAIL}}
        \cup {UpdateRequest(id, u) : id \in RaceIds, u \in RaceUpdates}
        \cup {DeleteRequest(id) : id \in RaceIds}

RaceNext ==
    \/ \E a \in Requests, b \in Requests : Race(a, b)
    \/ \E c \in 1..2 : Check(c)
    \/ \E c \in 1..2 : Write(c)
    \/ \E c \in 1..2 : Commit(c)

\* two requests served at the same time, each on its own connection, their
\* statements interleaved in every order the store allows
RaceSpec == Init /\ [][RaceNext]_vars

RetryNext ==
    \/ \E n \in 0..MaxTriedRetries : Acquire(n)
    \/ \E ok \in BOOLEAN : Attempt(ok)
    \/ \E q \in Queries(db, clock), fetch \in BOOLEAN, f \in Faults : Execute(q, fetch, f)
    \/ Done

\* The connection helper and one statement on the connection it returns.  Once
\* entered, the loop of get_database_connection_with_retry keeps running: each
\* attempt returns or raises within its connect timeout.
RetrySpec == Init /\ [][RetryNext]_vars /\ WF_vars(\E ok \in BOOLEAN : Attempt(ok))

Next ==
    \/ pc = "idle" /\ \E ev \in Events : Invoke(ev, "real")
    \/ pc = "idle" /\ \E ev \in DoubleEvents : Invoke(ev, "double")
    \/ Preflight
    \/ BasicStatus
    \/ \E ok \in BOOLEAN : Connect(ok)
    \/ \E f \in Faults, tie \in Ties : Dispatch(f, tie)
    \/ Finally
    \/ /\ pc = "idle"
       /\ \E ev \in Events, conn \in {"None", "open"}, f \in Faults, tie \in Ties,
             reach \in {<<TRUE, TRUE>>, <<FALSE, TRUE>>, <<FALSE, FALSE>>}, closes \in BOOLEAN :
              Direct(ev, conn, f, tie, reach, closes)
    \/ Returns

Spec == Init /\ [][Next]_vars

\* ------------------------------------------------------------------ claims

Statuses == {200, 400, 404, 500, 503}

Returned == pc = "returned"

\* the invocation is served by the repository's own dispatcher
Real == dispatcher = "real"

Serves(method, path) == event.httpMethod = method /\ event.path = <<path>>

\* the dispatcher was handed an open connection
HadConnection ==
    \/ entry = "lambda" /\ opened = 1
    \/ entry = "direct" /\ connection = "open"

\* C1: every invocation that has returned, through lambda_handler or through
\* handle_request, with or without a connection, whatever the method, path,
\* query and body, has handed back one envelope whose status is 200, 400, 404,
\* 500 or 503, and no exception of a handler, a model method or execute_query
\* has left the entry point.
C1_OneEnvelope ==
    Returned =>
        /\ ~raised
        /\ response # NoResponse
        /\ response.statusCode \in Statuses
        /\ response.body.statusCode = response.statusCode
        /\ response.body.kind = "error" <=> response.statusCode # 200

\* C1: a driver fault met inside a model method came back as an envelope
C1_Witness ==
    /\ Returned /\ Real
    /\ fault.at > 0
    /\ "ROLLBACK" \in {log[i] : i \in 1..Len(log)}
    /\ response.statusCode = 500
    /\ ~raised

\* C2: in lambda_handler an OPTIONS request (any path) and a request with path
\* /status never acquire a connection, never attempt one and execute no
\* statement; OPTIONS is answered 200 with the CORS preflight body, and GET
\* /status is answered 200 with status 'healthy' and database 'not_tested',
\* whether or not the database could be reached.
C2_NoDatabaseWork ==
    (entry = "lambda" /\ Real /\ (event.httpMethod = "OPTIONS" \/ event.path = <<STATUS>>)) =>
        /\ attempt = 0
        /\ opened = 0
        /\ log = <<>>
        /\ Returned /\ event.httpMethod = "OPTIONS" => response = CorsPreflight
        /\ Returned /\ Serves("GET", STATUS) =>
               /\ response.statusCode = 200
               /\ response.body.data.status = "healthy"
               /\ response.body.data.database = "not_tested"

\* C2: GET /status has been answered by lambda_handler
C2_Witness ==
    /\ entry = "lambda" /\ Real /\ Returned
    /\ Serves("GET", STATUS)
    /\ response.statusCode = 200
    /\ opened = 0

\* C3: in every invocation of lambda_handler at most one connection is open at
\* any moment, and once the handler has returned every connection it acquired
\* has been closed exactly once, whether the dispatcher returned a response or
\* raised; none stays open.
C3_ConnectionLifecycle ==
    entry = "lambda" =>
        /\ opened <= 1
        /\ opened - closed \in {0, 1}
        /\ connection = "open" <=> opened - closed = 1
        /\ Returned => closed = opened /\ connection # "open"

\* C3: the dispatcher raised, and the connection acquired for it was closed once
C3_Witness ==
    /\ entry = "lambda" /\ Returned
    /\ dispatcher = "double"
    /\ opened = 1 /\ closed = 1 /\ connection = "closed"
    /\ response.statusCode = 500

\* the step in which the entry point's answer comes into being
Answers == response = NoResponse /\ response' # NoResponse

\* the dispatcher of the answering step was handed an open connection and met
\* no driver fault
Served == dispatcher' = "real" /\ connection' = "open" /\ fault' = NoFault

\* the segments of a path after its /api/v1 prefix
RouteSegments(path) == Segments(SubSeq(path, Len(API_V1) + 1, Len(path)))

UnderV1(ev) == ev.path # <<>> /\ StartsWith(ev.path[1], API_V1)

\* the email of a create payload as the claims normalize it
NormalEmail(body) == lower(strip(body.o.email.s))

\* a well-formed request for one of the listed endpoints, on records store holds
WellFormedListed(ev, store) ==
    \/ /\ ev.httpMethod = "GET" /\ ev.path = <<V1(<<USERS>>)>>
       /\ ev.query \in WellFormedListQueries \cup {NoQuery}
    \/ /\ ev.httpMethod = "POST" /\ ev.path = <<V1(<<USERS>>)>>
       /\ ev.body \in ValidCreateBodies
       /\ \A u \in store.users : u.email # NormalEmail(ev.body)
    \/ /\ ev.httpMethod = "GET" /\ ev.path = <<V1(<<USERS, SEARCH>>)>>
       /\ ev.query \in WellFormedSearchQueries
    \/ \E u \in store.users :
          \/ /\ ev.path = <<V1(<<USERS, IntText(u.id)>>)>>
             /\ \/ ev.httpMethod \in {"GET", "DELETE"}
                \/ ev.httpMethod = "PUT" /\ ev.body \in ValidUpdateBodies
          \/ /\ ev.path = <<V1(<<USERS, IntText(u.id), AVATARS>>)>>
             /\ \/ ev.httpMethod = "GET"
                \/ ev.httpMethod = "POST" /\ ev.body \in ValidAvatarBodies
          \/ \E a \in store.avatars :
                /\ a.user_id = u.id
                /\ ev.path = <<V1(<<USERS, IntText(u.id), AVATARS, IntText(a.id)>>)>>
                /\ \/ ev.httpMethod \in {"GET", "DELETE"}
                   \/ ev.httpMethod = "PATCH" /\ ev.body \in ValidAvatarBodies

\* C4: a well-formed request for a listed /api/v1 endpoint that targets records
\* the store holds, served on an open connection, is answered 200 (never 404
\* 'Route not found', never 500).
C4_ListedEndpointsSucceed ==
    [][(Answers /\ Served /\ WellFormedListed(event', db)) => response'.statusCode = 200]_vars

\* the endpoint shapes the dispatcher lists: segment count, keywords and method
Listed(method, segs) ==
    \/ segs = <<USERS>> /\ method \in {"GET", "POST"}
    \/ segs = <<USERS, SEARCH>> /\ method = "GET"
    \/ Len(segs) = 2 /\ segs[1] = USERS /\ segs[2] # SEARCH /\ method \in {"GET", "PUT", "DELETE"}
    \/ Len(segs) = 3 /\ segs[1] = USERS /\ segs[3] = AVATARS /\ method \in {"GET", "POST"}
    \/ Len(segs) = 4 /\ segs[1] = USERS /\ segs[3] = AVATARS
       /\ method \in {"GET", "PATCH", "DELETE"}

\* C5: a method and path under /api/v1 that is not one of the listed shapes is
\* answered 404 'Route not found' naming the method, and no statement of a
\* model operation has run; extra segments after users/{id} and unlisted
\* methods on a listed path included.
C5_UnlistedRoutesNotFound ==
    (/\ Returned /\ Real /\ HadConnection
     /\ UnderV1(event)
     /\ event.httpMethod # "OPTIONS"
     /\ ~Listed(event.httpMethod, RouteSegments(event.path[1])))
    => /\ response.statusCode = 404
       /\ response.body.error = "Route not found"
       /\ response.body.arg.method = event.httpMethod
       /\ log = <<>>

\* GET /status/db or any /api/v1 route
NeedsStorage ==
    /\ event.httpMethod # "OPTIONS"
    /\ Serves("GET", STATUS_DB) \/ UnderV1(event)

\* the invocation has returned without having obtained a connection
NoConnection ==
    /\ Returned /\ Real /\ opened = 0
    /\ entry = "direct" => connection = "None"

\* C6 as stated: a request that needs storage and cannot obtain a connection
\* is answered 503 with the failure detail, through either entry point.
C6_Unavailable503 ==
    (NoConnection /\ NeedsStorage) =>
        response.statusCode = 503 /\ response.body.details # ""

\* C6 as amended: through lambda_handler the exhausted attempts are answered
\* 500 'Internal server error' with the failure detail; handle_request without
\* a connection answers an /api/v1 route 503 'Database connection required but
\* not available' without detail and without a statement, and GET /status/db,
\* whose own acquisition failed, 503 'Database connection failed' with the
\* failure detail.
C6_UnavailableByEntry ==
    (NoConnection /\ NeedsStorage) =>
        /\ entry = "lambda" =>
              /\ attempt = MaxRetries + 1
              /\ response = create_error_response(500, "Internal server error", NoArg,
                                                  "OperationalError")
        /\ entry = "direct" /\ UnderV1(event) =>
              /\ response = create_error_response(
                                503, "Database connection required but not available", NoArg, "")
              /\ log = <<>>
        /\ entry = "direct" /\ Serves("GET", STATUS_DB) =>
              /\ response.statusCode = 503
              /\ response.body.error = "Database connection failed"
              /\ response.body.details # ""

\* C6: lambda_handler has answered an /api/v1 request after every attempt to
\* connect failed
C6_Witness ==
    /\ NoConnection /\ NeedsStorage
    /\ entry = "lambda"
    /\ UnderV1(event)
    /\ attempt = MaxRetries + 1
    /\ response.statusCode = 500

\* a create or update whose payload or id breaks a field rule
BreaksRule(ev) ==
    \/ /\ ev.httpMethod = "POST" /\ ev.path = <<V1(<<USERS>>)>>
       /\ ev.body \in RuleBreakingCreateBodies
    \/ /\ ev.httpMethod = "PUT" /\ ev.path = <<V1(<<USERS, ONE>>)>>
       /\ ev.body \in RuleBreakingUpdateBodies
    \/ /\ \/ ev.httpMethod = "POST" /\ ev.path = <<V1(<<USERS, ONE, AVATARS>>)>>
          \/ ev.httpMethod = "PATCH" /\ ev.path = <<V1(<<USERS, ONE, AVATARS, ONE>>)>>
       /\ ev.body \in RuleBreakingAvatarBodies
    \/ ev.httpMethod = "PUT" /\ ev.path \in {<<V1(<<USERS, ZERO>>)>>, <<V1(<<USERS, ABC>>)>>}
    \/ ev.httpMethod = "POST" /\ ev.path = <<V1(<<USERS, ABC, AVATARS>>)>>
    \/ ev.httpMethod = "PATCH" /\ ev.path = <<V1(<<USERS, ONE, AVATARS, ZERO>>)>>

\* C7: a create or update whose payload breaks a field rule (a key outside
\* the allow-list, a numeric field that is no number or out of range, a gender
\* outside the enum, a text too long, an id that is no positive integer) is
\* answered 400, and no statement has been executed when it is.
C7_RuleViolationsRejected ==
    (Returned /\ Real /\ HadConnection /\ BreaksRule(event)) =>
        /\ response.statusCode = 400
        /\ response.body.error # ""
        /\ log = <<>>

\* t is s without the white space around it
IsTrimmed(t, s) ==
    /\ t = <<>> \/ (t[1] \notin Whitespace /\ t[Len(t)] \notin Whitespace)
    /\ \E i \in 0..Len(s) :
          /\ i + Len(t) <= Len(s)
          /\ SubSeq(s, i + 1, i + Len(t)) = t
          /\ \A k \in (1..i) \cup ((i + Len(t) + 1)..Len(s)) : s[k] \in Whitespace

\* v is the optional text field of payload o as the claim normalizes it:
\* trimmed, and null when the field is absent or blank
IsOptional(v, o, field) ==
    IF field \in DOMAIN o /\ \E k \in 1..Len(o[field].s) : o[field].s[k] \notin Whitespace
    THEN v # <<>> /\ IsTrimmed(v[1], o[field].s)
    ELSE v = <<>>

UserCreated == response.statusCode = 200 /\ response.body.message = "User created successfully"

C9_FetchAfterCreate ==
    (/\ Returned /\ Real /\ HadConnection /\ fault = NoFault
     /\ lastCreated # <<>>
     /\ event.httpMethod = "GET"
     /\ event.path = <<V1(<<USERS, IntText(lastCreated[1].id)>>)>>)
    => /\ response.statusCode = 200
       /\ \A k \in DOMAIN lastCreated[1] :
             k \in DOMAIN response.body.data /\ response.body.data[k] = lastCreated[1][k]

\* a create-user request whose trimmed, lower-cased email is a stored user's
Duplicate(ev, store) ==
    /\ ev.httpMethod = "POST" /\ ev.path = <<V1(<<USERS>>)>>
    /\ ev.body.k = "object"
    /\ "email" \in DOMAIN ev.body.o
    /\ ev.body.o.email.t = "str"
    /\ \E u \in store.users : u.email = NormalEmail(ev.body)

\* every field the payload supplies is a text
TextFields(ev) == \A k \in DOMAIN ev.body.o : ev.body.o[k].t = "str"

\* C10: a create-user request whose normalized email is that of a stored user
\* leaves the users table as it was and issues no INSERT; when its fields are
\* texts and the lookup met no driver fault it is answered 400.
C10_DuplicateEmailRejected ==
    [][(Answers /\ dispatcher' = "real" /\ connection' = "open" /\ Duplicate(event', db)) =>
          /\ db'.users = db.users
          /\ \A i \in 1..Len(log') : log'[i] # "INSERT users"
          /\ (fault' = NoFault /\ TextFields(event')) =>
                 response'.statusCode = 400 /\ response'.body.kind = "error"]_vars

\* C10: a create with the email ' JOHN@example.com' was refused while
\* john@example.com is stored
C10_Witness ==
    /\ Returned /\ Real /\ HadConnection
    /\ event.body \in DuplicateCreateBodies
    /\ Duplicate(event, db)
    /\ response.statusCode = 400
    /\ response.body.error = "User with email already exists"
    /\ log # <<>>

\* the rows of table S other than the one with id
Others(S, id) == {r \in S : r.id # id}

\* a number in tenths, whatever type carries it
Tenths(x) == IF x.t = "int" THEN 10 * x.v ELSE x.v

\* column value x is what was supplied as y: the same value, or the same number
SameValue(x, y) ==
    \/ x = y
    \/ /\ x.t \in {"int", "float", "Decimal"}
       /\ y.t \in {"int", "float", "Decimal"}
       /\ Tenths(x) = Tenths(y)

\* the step from store old to store new changes, in the users row id, only
\* columns the payload o supplies and updated_at, and changes no other row
UserFrame(old, new, id, o) ==
    /\ Others(new.users, id) = Others(old.users, id)
    /\ new.avatars = old.avatars
    /\ \E r \in old.users, u \in new.users :
          /\ r.id = id /\ u.id = id
          /\ u.created_at = r.created_at
          /\ u.updated_at > r.updated_at
          /\ IF "name" \in DOMAIN o THEN IsTrimmed(u.name, o.name.s) ELSE u.name = r.name
          /\ IF "email" \in DOMAIN o THEN IsTrimmed(u.email, lower(o.email.s))
             ELSE u.email = r.email
          /\ IF "phone" \in DOMAIN o THEN u.phone = <<>> \/ IsTrimmed(u.phone[1], o.phone.s)
             ELSE u.phone = r.phone
          /\ IF "bio" \in DOMAIN o THEN u.bio = <<>> \/ IsTrimmed(u.bio[1], o.bio.s)
             ELSE u.bio = r.bio

\* the same for the avatars row id and the supplied fields
AvatarFrame(old, new, id, fields) ==
    /\ Others(new.avatars, id) = Others(old.avatars, id)
    /\ new.users = old.users
    /\ \E r \in old.avatars, a \in new.avatars :
          /\ r.id = id /\ a.id = id
          /\ a.updated_at > r.updated_at
          /\ \A c \in AvatarColumns \ {"id", "updated_at"} :
                IF c \in DOMAIN fields
                THEN (IF c \in AvatarDataColumns THEN SameValue(a[c], fields[c])
                      ELSE a[c] = fields[c])
                ELSE a[c] = r[c]

\* the id a path /api/v1/users/<id>/... or /api/v1/users/<u>/avatars/<id> names
PathId(ev, n) == int_text(RouteSegments(ev.path[1])[n]).v

\* C11: a successful partial update changes exactly the supplied fields and
\* updated_at: after PUT users/{id} answered 200, after PATCH
\* users/{u}/avatars/{id} answered 200 and after Avatar.update_partial returned
\* a row, every column of the target row the request does not supply, every
\* other row and the other table are as they were, the supplied columns hold
\* the supplied (trimmed) values and updated_at has advanced.
C11_PartialUpdateFrame ==
    [][/\ (pc' = "returned" /\ event'.httpMethod = "PUT" /\ response'.statusCode = 200)
             => UserFrame(db, db', PathId(event', 2), event'.body.o)
       /\ (pc' = "returned" /\ event'.httpMethod = "PATCH" /\ response'.statusCode = 200)
             => AvatarFrame(db, db', PathId(event', 4), event'.body.o)
       /\ (pc' = "called" /\ call'.op = "update_partial" /\ outcome'.exc = ""
              /\ outcome'.val # <<>>)
             => AvatarFrame(db, db', call'.args[1], call'.args[2])]_vars

\* a PUT that supplies phone and bio but no name was answered 200
C11_Witness ==
    /\ Returned
    /\ event.httpMethod = "PUT"
    /\ response.statusCode = 200
    /\ DOMAIN event.body.o = {"phone", "bio"}

\* a request for /api/v1/users/<id> with a positive integer id
OnUser(ev) ==
    /\ UnderV1(ev)
    /\ Len(RouteSegments(ev.path[1])) = 2
    /\ RouteSegments(ev.path[1])[1] = USERS
    /\ UserIdArg(RouteSegments(ev.path[1])[2]).ok

HasRow(S, id) == \E r \in S : r.id = id

\* a GET or DELETE, or a PUT whose payload passes the field rules
WellFormedOnUser(ev) ==
    /\ OnUser(ev)
    /\ \/ ev.httpMethod \in {"GET", "DELETE"} /\ ev.body = NoBody
       \/ /\ ev.httpMethod = "PUT"
          /\ ev.body \in ValidUpdateBodies \cup {Obj([email |-> JStr(JANE_EMAIL)])}

\* C12: a well-formed GET, PUT or DELETE on /api/v1/users/{id} whose id is not
\* stored, served without a driver fault, is answered 404 and leaves the store
\* as it was; DELETE users/{id} and Avatar.delete report a removal exactly when
\* a row with the id was stored before and is gone after, and otherwise leave
\* the store as it was.
C12_MissingUserNotFound ==
    [][/\ (pc' = "returned" /\ fault' = NoFault /\ WellFormedOnUser(event')
              /\ ~HasRow(db.users, PathId(event', 2)))
             => response'.statusCode = 404 /\ db' = db
       /\ (pc' = "returned" /\ fault' = NoFault /\ OnUser(event')
              /\ event'.httpMethod = "DELETE")
             => /\ response'.statusCode \in {200, 404}
                /\ response'.statusCode = 200
                      <=> /\ HasRow(db.users, PathId(event', 2))
                          /\ ~HasRow(db'.users, PathId(event', 2))
                /\ response'.statusCode = 404 => db' = db
       /\ (pc' = "called" /\ call'.op = "delete" /\ outcome'.exc = "")
             => /\ outcome'.val
                      <=> /\ HasRow(db.avatars, call'.args[1])
                          /\ ~HasRow(db'.avatars, call'.args[1])
                /\ ~outcome'.val => db' = db]_vars

\* a PUT with a valid payload on a user id that is not stored was answered 404
C12_Witness ==
    /\ Returned
    /\ WellFormedOnUser(event)
    /\ event.httpMethod = "PUT"
    /\ response.statusCode = 404
    /\ response.body.error = "User not found"
    /\ log # <<>>

\* a GET, DELETE or valid PATCH on /api/v1/users/<u>/avatars/<a> where store
\* holds avatar a for a user other than u
OnForeignAvatar(ev, store) ==
    /\ UnderV1(ev)
    /\ Len(RouteSegments(ev.path[1])) = 4
    /\ RouteSegments(ev.path[1])[1] = USERS
    /\ RouteSegments(ev.path[1])[3] = AVATARS
    /\ _parse_positive_int(RouteSegments(ev.path[1])[2]).ok
    /\ _parse_positive_int(RouteSegments(ev.path[1])[4]).ok
    /\ \E a \in store.avatars : a.id = PathId(ev, 4) /\ a.user_id # PathId(ev, 2)
    /\ \/ ev.httpMethod \in {"GET", "DELETE"} /\ ev.body = NoBody
       \/ ev.httpMethod = "PATCH" /\ ev.body \in ValidAvatarBodies

\* C13: a GET, PATCH or DELETE on /api/v1/users/{u}/avatars/{a}, served on an
\* open connection without a driver fault, where avatar a is stored for a user
\* other than u, is answered 404 'Avatar not found' without data and leaves
\* the avatars as they were.
C13_ForeignAvatarNotFound ==
    [][(pc' = "returned" /\ fault' = NoFault /\ connection' = "open"
           /\ OnForeignAvatar(event', db))
          => /\ response'.statusCode = 404
             /\ response'.body.error = "Avatar not found"
             /\ response'.body.data = NoData
             /\ db'.avatars = db.avatars]_vars

\* a users list request, or a search request whose term has two characters or more
Listing(ev) ==
    /\ ev.httpMethod = "GET"
    /\ \/ ev.path = <<V1(<<USERS>>)>>
       \/ /\ ev.path = <<V1(<<USERS, SEARCH>>)>>
          /\ "q" \in DOMAIN ev.query
          /\ Len(strip(ev.query["q"])) >= 2

\* the limit and offset values the request carries parse as integers
IntegerParams(ev) ==
    \A k \in {"limit", "offset"} \cap DOMAIN ev.query : int_text(ev.query[k]).ok

\* the limit a listing uses when the request names none
DefaultOf(ev) == IF ev.path = <<V1(<<USERS>>)>> THEN DefaultLimit ELSE DefaultSearchLimit

\* C14: a users list or search request whose limit and offset parse as
\* integers, served on an open connection without a driver fault, is answered
\* with a page computed from a limit in [1,100] and an offset >= 0 (the default
\* limit, 10 or 20, when the request names none): limit=0, a negative limit
\* and a negative offset are clamped and never end in an error.
C14_LimitOffsetClamped ==
    (Returned /\ Real /\ HadConnection /\ fault = NoFault /\ Listing(event)
        /\ IntegerParams(event))
       => /\ response.statusCode = 200
          /\ response.body.pagination # <<>>
          /\ response.body.pagination[1].limit \in 1..MaxLimit
          /\ response.body.pagination[1].page >= 1
          /\ "limit" \notin DOMAIN event.query
                => response.body.pagination[1].limit = DefaultOf(event)

\* the limit and the offset of a listing request, as an integer
LimitOf(ev) ==
    Min(IF "limit" \in DOMAIN ev.query THEN int_text(ev.query["limit"]).v ELSE DefaultOf(ev),
        MaxLimit)
OffsetOf(ev) == IF "offset" \in DOMAIN ev.query THEN int_text(ev.query["offset"]).v ELSE 0

\* a listing request with integer limit >= 1 and offset >= 0
Paged(ev) == Listing(ev) /\ IntegerParams(ev) /\ LimitOf(ev) >= 1 /\ OffsetOf(ev) >= 0

\* the search filter of a listing request: <<>> for none
TermOf(ev) ==
    IF ev.path = <<V1(<<USERS, SEARCH>>)>> THEN <<strip(ev.query["q"])>>
    ELSE IF "search" \in DOMAIN ev.query /\ ev.query["search"] # <<>>
    THEN <<ev.query["search"]>>
    ELSE <<>>

\* positions O+1 .. O+L of the ordered sequence all, as the listing's columns
PageOf(all, L, O) ==
    [i \in 1..(IF Len(all) - O < 0 THEN 0 ELSE Min(L, Len(all) - O)) |-> UserColumns(all[O + i])]

WritesUser(ev) ==
    /\ \/ ev.httpMethod = "POST" /\ ev.path = <<V1(<<USERS>>)>>
       \/ ev.httpMethod = "PUT" /\ OnUser(ev)
    /\ ev.body.k = "object"
    /\ TextFields(ev)

\* the length of field k of payload o once trimmed; 0 when it is absent
TrimmedLen(o, k) == IF k \in DOMAIN o THEN Len(strip(o[k].s)) ELSE 0

\* the payload meets the length rules, names of least to 100 characters being allowed
LengthsOk(ev, least) ==
    /\ (ev.httpMethod = "POST" \/ "name" \in DOMAIN ev.body.o)
          => TrimmedLen(ev.body.o, "name") \in least..MaxNameLen
    /\ TrimmedLen(ev.body.o, "phone") <= MaxPhoneLen
    /\ TrimmedLen(ev.body.o, "bio") <= MaxBioLen

\* the 400 messages that refuse a field for its length
LengthErrors ==
    {"Name and email are required", "Name cannot be empty",
     "Name must be between 2 and 100 characters", "Phone number too long",
     "Bio must be less than 500 characters"}

\* a request is refused for a field length exactly when it breaks a length
\* rule, and then before any statement
LengthRule(least) ==
    (Returned /\ Real /\ HadConnection /\ fault = NoFault /\ WritesUser(event))
       => /\ ~LengthsOk(event, least) => response.statusCode = 400 /\ log = <<>>
          /\ LengthsOk(event, least)
                => ~(/\ response.statusCode = 400
                     /\ response.body.error \in LengthErrors
                     /\ TrimmedLen(event.body.o, "email") > 0 \/ event.httpMethod = "PUT")

\* C17 as stated: a create-user or update-user request is refused for a field
\* length exactly when its trimmed name has fewer than 1 or more than 100
\* characters, its phone more than 20 or its bio more than 500.
C17_LengthsFromOne == LengthRule(1)

\* C17: a create-user or update-user request is refused for a field length
\* exactly when its trimmed name has fewer than 2 or more than 100 characters,
\* its phone more than 20 or its bio more than 500; names of 2 and of 100
\* characters are accepted, names of 1 and of 101 characters are answered 400.
C17_LengthsFromTwo == LengthRule(MinNameLen)

\* a create with a name of 100, a phone of 20 and a bio of 500 characters was
\* answered 200
C17_Witness ==
    /\ Returned
    /\ WritesUser(event)
    /\ event.httpMethod = "POST"
    /\ TrimmedLen(event.body.o, "name") = MaxNameLen
    /\ TrimmedLen(event.body.o, "phone") = MaxPhoneLen
    /\ TrimmedLen(event.body.o, "bio") = MaxBioLen
    /\ response.statusCode = 200

\* C18: no optional text field is stored as an empty string: whatever create
\* and update requests were accepted, the phone and bio of every stored user
\* and the display_name, gender and notes of every stored avatar are null or
\* a text of at least one character.
C18_NoEmptyOptionalText ==
    /\ \A u \in db.users : u.phone # <<<<>>>> /\ u.bio # <<<<>>>>
    /\ \A a \in db.avatars, c \in {"display_name", "gender", "notes"} : a[c] # JStr(<<>>)

\* a request on /api/v1/users/<u>/avatars (n = 3) or .../avatars/<a> (n = 4)
\* with positive integer ids and an object payload of allowed fields
WritesAvatar(ev, method, n) ==
    /\ ev.httpMethod = method
    /\ UnderV1(ev)
    /\ Len(RouteSegments(ev.path[1])) = n
    /\ RouteSegments(ev.path[1])[1] = USERS
    /\ RouteSegments(ev.path[1])[3] = AVATARS
    /\ \A i \in {2, 4} \cap (1..n) : _parse_positive_int(RouteSegments(ev.path[1])[i]).ok
    /\ ev.body.k = "object"
    /\ DOMAIN ev.body.o \subseteq allowed_fields

\* no field of payload o is left with a value once blanks are normalized to null
NothingMeaningful(o) == \A f \in DOMAIN o : o[f].t = "NoneType" \/ strip(PyStr(o[f])) = <<>>

\* C19: an avatar create request whose payload carries no field with a value
\* left after normalization, and a partial update that carries no field (PATCH
\* with an empty object, Avatar.update_partial without fields), are refused
\* with a validation error (400, ValueError) before any statement, commit or
\* rollback.
C19_EmptyAvatarPayloadRefused ==
    /\ (Returned /\ Real /\ HadConnection /\ fault = NoFault
           /\ WritesAvatar(event, "POST", 3) /\ NothingMeaningful(event.body.o))
          => response.statusCode = 400 /\ log = <<>>
    /\ (Returned /\ Real /\ HadConnection /\ fault = NoFault
           /\ WritesAvatar(event, "PATCH", 4) /\ DOMAIN event.body.o = {})
          => response.statusCode = 400 /\ log = <<>>
    /\ (pc = "called" /\ call.op = "update_partial" /\ DOMAIN call.args[2] = {})
          => outcome.exc = "ValueError" /\ log = <<>>

\* get_database_connection_with_retry is running or has ended
InHelper == entry = "helper" /\ pc \in {"connecting", "called"}

\* C20: get_database_connection_with_retry(max_retries = n) makes at most n+1
\* attempts; while it runs every attempt so far has failed; when it returns,
\* it returns the connection of the attempt just made, the only one that
\* succeeded; when it raises, n+1 attempts were made and the exception is
\* that of the last one; once entered it ends; and execute_query sends its
\* statement once, whether the driver accepts it or raises.
C20_RetryBoundedAndEnds ==
    /\ [](InHelper =>
            /\ attempt <= call.max_retries + 1
            /\ pc = "connecting" => opened = 0 /\ call.last_exception = attempt
            /\ (pc = "called" /\ outcome.exc = "") =>
                   /\ opened = 1
                   /\ connection = "open"
                   /\ outcome.val = <<attempt>>
                   /\ call.last_exception = attempt - 1
            /\ (pc = "called" /\ outcome.exc # "") =>
                   /\ opened = 0
                   /\ attempt = call.max_retries + 1
                   /\ call.last_exception = attempt
                   /\ outcome.val = <<attempt>>)
    /\ [](pc = "executed" =>
            /\ Len(DataStatements(log)) = 1
            /\ raised <=> (fault.kind \in {"timeout", "error"} \/ call.rejected)
            /\ outcome.exc = IF raised THEN "Exception" ELSE "")
    /\ (pc = "connecting") ~> (pc = "called")

\* with max_retries = 2 the third attempt connected after two failures
C20_Witness ==
    /\ InHelper
    /\ pc = "called"
    /\ call.max_retries = 2
    /\ attempt = 3
    /\ outcome.exc = ""
    /\ call.last_exception = 2

\* execute_query has been run on its own and has returned or raised
Executed == pc = "executed"

Count(l, e) == Cardinality({i \in 1..Len(l) : l[i] = e})

\* the driver raised on the statement: the injected fault, or the store's refusal
DriverRaised(kind) ==
    \/ fault.kind = kind
    \/ kind = "error" /\ fault.kind # "timeout" /\ call.rejected

\* C21: whatever the outcome of execute_query, the cursor it opened is closed,
\* and closing is the last thing it does; when the driver cancels the statement
\* it rolls back and raises "Database query timeout", when the driver raises
\* another error it rolls back and raises "Database query failed"; a call that
\* raises has rolled back and leaves no uncommitted change on the connection,
\* and a call that returns has not rolled back.
C21_CursorClosedAndRolledBack ==
    Executed =>
        /\ log[1] = "cursor"
        /\ log[Len(log)] = "cursor.close"
        /\ Count(log, "cursor") = 1
        /\ Count(log, "cursor.close") = 1
        /\ DriverRaised("timeout") =>
               raised /\ outcome.exc = "Exception" /\ outcome.msg = "Database query timeout"
        /\ DriverRaised("error") =>
               raised /\ outcome.exc = "Exception" /\ outcome.msg = "Database query failed"
        /\ raised =>
               /\ DriverRaised("timeout") \/ DriverRaised("error")
               /\ SubSeq(log, Len(log) - 2, Len(log)) = <<call.query, "ROLLBACK", "cursor.close">>
               /\ Count(log, "COMMIT") = 0
               /\ ~call.pending
        /\ ~raised => Count(log, "ROLLBACK") = 0

\* an INSERT the driver cancelled
C21_Witness ==
    /\ Executed
    /\ call.query = "INSERT users"
    /\ fault.kind = "timeout"
    /\ outcome.msg = "Database query timeout"
    /\ "ROLLBACK" \in {log[i] : i \in 1..Len(log)}

\* the positions of the data statements in the log
DataPositions == {i \in 1..Len(log) : log[i] \notin Bookkeeping}

\* the data statement at position i is the n-th one of the log
Nth(i) == Cardinality({j \in DataPositions : j <= i})

\* C22 as stated: every data statement handed to the driver comes right after
\* an accepted SET statement_timeout, so a server-side timeout is in effect.
C22_EveryStatementTimed ==
    \A i \in DataPositions : i > 1 /\ log[i - 1] = "SET statement_timeout"

\* C22: execute_query issues SET statement_timeout before every data statement;
\* the statement runs with the timeout in effect unless the driver rejected
\* that command, and then, and only then, it is executed without one.
C22_TimedUnlessSetRejected ==
    \A i \in DataPositions :
        /\ i > 1
        /\ log[i - 1] \in {"SET statement_timeout", "SET statement_timeout rejected"}
        /\ log[i - 1] = "SET statement_timeout rejected" <=>
               (fault.kind = "set" /\ fault.at = Nth(i))

\* a request served in full although the driver rejected the timeout command
C22_Witness ==
    /\ Returned
    /\ response.statusCode = 200
    /\ fault.kind = "set"
    /\ \E i \in DataPositions : log[i - 1] = "SET statement_timeout rejected"

\* get_database_connection has returned or raised
Connector == pc = "called" /\ entry = "connector"

AllDirect == DirectKeys \subseteq DOMAIN call.environ

\* the host the claim's priority names, <<>> when none is available
PreferredHost ==
    IF "DB_CLUSTER_ENDPOINT" \in DOMAIN call.environ /\ call.environ["DB_CLUSTER_ENDPOINT"] # ""
    THEN <<call.environ["DB_CLUSTER_ENDPOINT"]>>
    ELSE IF "host" \in DOMAIN call.secret /\ call.secret["host"] # ""
    THEN <<call.secret["host"]>>
    ELSE IF "DB_PROXY_ENDPOINT" \in DOMAIN call.environ
    THEN <<call.environ["DB_PROXY_ENDPOINT"]>>
    ELSE <<>>

Contacted(what) == \E i \in 1..Len(log) : log[i] = what

\* C23: with DB_HOST, DB_NAME, DB_USERNAME and DB_PASSWORD all present,
\* get_database_connection never contacts the secret store and connects, if
\* it connects, with those credentials; with one of them missing it never
\* connects with the environment's credentials: every connection it attempts
\* follows a fetched secret, with the secret's credentials, to
\* DB_CLUSTER_ENDPOINT if set, else the secret's host if present, else
\* DB_PROXY_ENDPOINT; a connection it returns has autocommit disabled and is
\* the one to that host.
C23_ConnectionSource ==
    Connector =>
        /\ AllDirect =>
              /\ ~Contacted("get_secret_value")
              /\ call.kwargs # <<>> =>
                    /\ call.kwargs[1].host = call.environ["DB_HOST"]
                    /\ call.kwargs[1].database = call.environ["DB_NAME"]
                    /\ call.kwargs[1].user = call.environ["DB_USERNAME"]
                    /\ call.kwargs[1].password = call.environ["DB_PASSWORD"]
        /\ (~AllDirect /\ call.kwargs # <<>>) =>
              /\ log[1] = "get_secret_value"
              /\ <<call.kwargs[1].host>> = PreferredHost
              /\ call.kwargs[1].user = call.secret["username"]
              /\ call.kwargs[1].password = call.secret["password"]
        /\ (~AllDirect /\ "DB_SECRET_ARN" \in DOMAIN call.environ) =>
              Contacted("get_secret_value")
        /\ outcome.exc = "" =>
              /\ call.kwargs # <<>>
              /\ outcome.val = <<[host |-> call.kwargs[1].host, autocommit |-> FALSE]>>
        /\ outcome.exc # "" => outcome.val = <<>>

\* no cluster endpoint, a secret without host: the proxy endpoint is used
C23_Witness ==
    /\ Connector
    /\ ~AllDirect
    /\ "DB_HOST" \in DOMAIN call.environ
    /\ "DB_CLUSTER_ENDPOINT" \notin DOMAIN call.environ
    /\ "host" \notin DOMAIN call.secret
    /\ outcome.exc = ""
    /\ outcome.val[1].host = "proxy.example.com"
    /\ ~outcome.val[1].autocommit

\* C24: a request that commits a change of the stored users or avatars is
\* answered with the 200 success envelope; so a write endpoint that answers
\* with an error has left the stored data as it was.
C24_CommittedMeansSuccess ==
    [][Wrote(db, db') =>
          /\ response' # NoResponse
          /\ response'.statusCode = 200
          /\ response'.body.kind = "success"]_vars


\* an Avatar model method has been called and has sent its statement
AvatarSent == pc = "called" /\ entry = "model" /\ DataStatements(log) # <<>>

\* handle_request has served a route that runs User.create, update or delete
UserWriteServed ==
    /\ pc = "returned" /\ entry = "direct" /\ connection = "open"
    /\ event.path # <<>>
    /\ Len(event.path[1]) >= 13 /\ SubSeq(event.path[1], 1, 13) = API_V1 \o SLASH \o USERS
    /\ event.httpMethod \in {"POST", "PUT", "DELETE"}

MethodCalled == pc = "called" /\ entry = "model"

\* the data statements between transaction boundaries: the longest run of data
\* statements of l with no COMMIT or ROLLBACK between them
RECURSIVE LongestRun(_, _, _)
LongestRun(l, run, best) ==
    IF l = <<>> THEN (IF run > best THEN run ELSE best)
    ELSE IF Head(l) \in {"COMMIT", "ROLLBACK"}
    THEN LongestRun(Tail(l), 0, IF run > best THEN run ELSE best)
    ELSE IF Head(l) \in Bookkeeping THEN LongestRun(Tail(l), run, best)
    ELSE LongestRun(Tail(l), run + 1, best)

\* the User methods that look the row up before they write
CheckThenWrite == {"User.create", "User.update", "User.delete"}

Raced == pc = "racing" /\ \A c \in 1..2 : Sessions[c].at = "answered"

\* the store the race began on
Before0 == outcome.val[1]

\* the race is between two create-user requests with the same email, which no
\* stored user had
SameEmailCreates ==
    /\ Raced
    /\ \A c \in 1..2 : Sessions[c].req.op = "create"
    /\ Sessions[1].req.email = Sessions[2].req.email
    /\ \A r \in Before0.users : r.email # Sessions[1].req.email

\* C27: of two concurrent create-user requests with the same email, under every
\* interleaving exactly one is answered 200 and the other 400 for the duplicate
\* email, not 500, and at most one row with the email is stored.
C27_OneCreatedOtherDuplicate ==
    SameEmailCreates =>
        /\ \E c \in 1..2 :
              /\ Sessions[c].resp.statusCode = 200
              /\ Sessions[3 - c].resp.statusCode = 400
              /\ Sessions[3 - c].resp.body.error = "User with email already exists"
        /\ Cardinality({r \in db.users : r.email = Sessions[1].req.email}) <= 1


\* connection c serves a PUT users/{id} while the other serves a DELETE of the
\* same id, which a stored user had
UpdateRacesDelete(c) ==
    /\ Raced
    /\ Sessions[c].req.op = "update"
    /\ Sessions[3 - c].req.op = "delete"
    /\ Sessions[c].req.id = Sessions[3 - c].req.id
    /\ \E r \in Before0.users : r.id = Sessions[c].req.id

\* C28: an update of a user racing a delete of the same user is answered 200
\* with the updated record or 404 'User not found' under every interleaving,
\* never 500.
C28_UpdateRacingDeleteNever500 ==
    \A c \in 1..2 :
        UpdateRacesDelete(c) =>
            LET resp == Sessions[c].resp
            IN \/ /\ resp.statusCode = 200
                  /\ resp.body.data.id = Sessions[c].req.id
                  /\ resp.body.message = "User updated successfully"
               \/ /\ resp.statusCode = 404
                  /\ resp.body.error = "User not found"


\* C29: a users list or search request with limit L >= 1 and offset O >= 0,
\* answered 200 with total_count T, reports has_next exactly when O + L < T
\* and has_previous exactly when O > 0, whether or not O is a multiple of L.
C29_FlagsFromOffset ==
    (Returned /\ Real /\ HadConnection /\ fault = NoFault /\ Paged(event)
        /\ response.statusCode = 200) =>
        LET p == response.body.pagination[1]
        IN /\ p.has_next = (OffsetOf(event) + LimitOf(event) < p.total_count)
           /\ p.has_previous = (OffsetOf(event) > 0)


\* a POST, PUT or PATCH to a write route
WriteRoute(ev) ==
    \/ ev.httpMethod = "POST" /\ ev.path = <<V1(<<USERS>>)>>
    \/ ev.httpMethod = "PUT" /\ ev.path = <<V1(<<USERS, ONE>>)>>
    \/ ev.httpMethod = "POST" /\ ev.path = <<V1(<<USERS, ONE, AVATARS>>)>>
    \/ ev.httpMethod = "PATCH" /\ ev.path = <<V1(<<USERS, ONE, AVATARS, ONE>>)>>

\* the body is null, is not JSON, is JSON but no object, or gives name, email,
\* phone or bio a value that is not a string
Malformed(ev) ==
    \/ ev.body.k \in {"None", "invalid", "array", "string", "other"}
    \/ /\ ev.body.k = "object"
       /\ \E k \in AllowedUserFields \cap DOMAIN ev.body.o : ev.body.o[k].t # "str"

\* C30: a POST, PUT or PATCH to a write route whose body is malformed is
\* answered 400, never 500, and executes no statement.
C30_MalformedBodyRejected ==
    (Returned /\ Real /\ HadConnection /\ WriteRoute(event) /\ Malformed(event)) =>
        /\ response.statusCode = 400
        /\ DataStatements(log) = <<>>

====
